---- MODULE Spec2Model ----
(***************************************************************************)
(* Verification model of ctf-builder's deployment and test orchestration:  *)
(* the port allocator, the container start/stop operations, the test-stage *)
(* callback, the Docker test kind and the challenge concurrency runner.    *)
(***************************************************************************)
EXTENDS Integers, Sequences, FiniteSets, TLC

(***************************************************************************)
(* Bounds of the model.                                                    *)
(***************************************************************************)
MaxSpan == 2
MaxCalls == 3
NumChallenges == 2
MaxTrackChallenges == 2
MaxRequested == 2
MaxVerifiers == 3
MaxFiles == 2
MaxDeploys == 2

(***************************************************************************)
(* Program constants.                                                      *)
(***************************************************************************)
MAX_TCP_PORT == 65535
DEPLOY_ATTEMPTS == 2

VARIABLES
    \* ---- port allocator (cmd/common.py port_generator, cmd/docker/start.py)
    cfgPort,             \* context.port: the configured base port (-p)
    CHALLENGE_MAX_PORTS, \* the configured maximum ports per challenge
    genPort,             \* per challenge index: the generator's local `port`
    genExhausted,        \* per challenge index: generator left its first loop
    genOut               \* per challenge index: the values yielded so far

portVars == <<cfgPort, CHALLENGE_MAX_PORTS, genPort, genExhausted, genOut>>

VARIABLES
    \* ---- the declarative model and the container runtime
    track,               \* per challenge index: the parsed Track
    docker_client,       \* context.docker_client is not None
    containers,          \* the containers that exist in the runtime
    networks,            \* the names of the networks that exist in the runtime
    \* ---- docker_start / docker_stop (models/deploy/docker.py)
    cfgHost,             \* context.host is set (ports are bound to a host)
    dChallenge,          \* index of the challenge the start / stop worker handles
    dLast                \* the last docker_start / docker_stop call and its result

VARIABLES
    \* ---- the test-stage callback test() (cmd/test.py)
    tPc,                 \* position of the call
    tNetwork,            \* `network` is a network object (not None)
    tI,                  \* position of the loop the call is in
    tErrors,             \* the local list `errors`
    tRunning,            \* running_deployers (positions in track.deploy)
    tWaiting,            \* waiting_deployers
    tAttempt,            \* the health-polling round
    tExit,               \* how the try block was left: "return" or "raise"
    tStarts,             \* per started deploy: what its start call met
    tStartOk,            \* the deploys whose start returned no error
    tHealthy,            \* the deploys a polling round found healthy
    tLog,                \* the teardown steps attempted, in order
    tResult              \* the error list the call returned

testVars == <<tPc, tNetwork, tI, tErrors, tRunning, tWaiting, tAttempt, tExit,
              tStarts, tStartOk, tHealthy, tLog, tResult>>

VARIABLES
    \* ---- TestDocker.build and its verifier threads (models/test/docker.py)
    bPc,                 \* position of the build call
    bTester,             \* the tester the call is made on
    bErrors,             \* the local list `errors`
    bThreads,            \* test_threads: the DockerTestContext of every thread
    bState,              \* per thread: "new", "running", "done" or "died"
    bThreadErrors,       \* per thread: its context.errors list
    bOutcome,            \* per thread: what its verifier container did
    bResult,             \* the error list the call returned
    bException           \* the exception the call ended with, "none" if none

runtimeVars == <<track, docker_client, containers, networks>>
deployVars == <<cfgHost, dChallenge, dLast>>
buildVars == <<bPc, bTester, bErrors, bThreads, bState, bThreadErrors, bOutcome, bResult, bException>>

VARIABLES
    \* ---- cli_challenge_wrapper and its workers (cmd/common.py)
    wPc,                 \* position of the wrapper call
    wStage,              \* the stage command that calls the wrapper
    wGiven,              \* args.challenge: the names given with -c
    wArg,                \* the argument `challenges`: None or Some(list of names)
    wRepo,               \* what get_challenges(root_directory) returns
    wKind,               \* per challenge name: what cli_challenge finds on disk
    skip_inactive,       \* the local skip_inactive
    wChallenges,         \* the list `challenges` the loops iterate over
    wThreads,            \* per worker: "new", "alive" or "dead"
    wErrors,             \* the `errors` list objects, entries tagged by worker
    error_map,           \* challenge name -> list object (0: no entry)
    running_queue,       \* the workers still to be reported
    all_errors,          \* the entries collected from the reported lists
    wRemoved,            \* the progress tasks removed so far
    wReports,            \* the per-challenge reports printed, in order
    wCallback,           \* per worker: how its stage callback ended
    wDone,               \* the workers in the order they ended
    wResult              \* the value the wrapper returned

wrapVars == <<wPc, wStage, wGiven, wArg, wRepo, wKind, skip_inactive, wChallenges, wThreads, wErrors,
              error_map, running_queue, all_errors, wRemoved, wReports, wCallback,
              wDone, wResult>>

VARIABLES
    \* ---- BuildDocker.build (models/build/docker.py)
    iPc,                 \* position of the call
    iScen,               \* what the steps before the file loop meet
    iFiles,              \* self.files: per entry, what its extraction meets
    iI,                  \* position of the loop over self.files
    iErrors,             \* the local list `errors`
    iSeen,               \* the entries whose iteration was run
    iWritten,            \* the entries whose destination file was written
    iRemoved,            \* container.remove was attempted
    iContainer,          \* the container of the call: "none", "created", "left", "removed"
    iResult              \* the error list the call returned

imageVars == <<iPc, iScen, iFiles, iI, iErrors, iSeen, iWritten, iRemoved, iContainer, iResult>>

VARIABLES
    \* ---- the stage callbacks of concurrent workers (cmd/docker, cmd/k8s, cmd/test.py)
    sLabels,             \* per challenge directory: tag and name of its track
    sDeploys,            \* per challenge directory: len(track.deploy)
    sPlan,               \* the stage commands the user runs, in order
    sRound,              \* the position in sPlan of the running invocation
    sPc,                 \* per worker: "idle", "network", "running", "teardown", "dead", "raised"
    sI,                  \* per worker: the index i of the loop over track.deploy
    sErrors,             \* per worker: the error list of its callback
    sAccess,             \* the container and network names each worker used
    sWrites,             \* the objects each worker mutated
    sOutput,             \* context.output of the list command
    sPublicPorts,        \* context.public_ports of the k8s build command
    sManifests,          \* the deploys whose manifest file k8s build wrote
    sStarted,            \* per worker of test: running_deployers (indices i)
    sNet,                \* per worker of test: its network object exists
    sRoot,               \* what the cli of k8s build did after the wrapper
    sFault,              \* the runtime failed a call of this invocation
    sPrev                \* the invocation before this one

stageVars == <<sLabels, sDeploys, sPlan, sRound, sPc, sI, sErrors, sAccess, sWrites,
               sOutput, sPublicPorts, sManifests, sStarted, sNet, sRoot, sFault, sPrev>>

VARIABLES
    \* ---- cli of docker start and of docker stop (cmd/docker/start.py, stop.py)
    cCommand,            \* "start" or "stop"
    arg_networks,        \* the requested networks, in order
    arg_hosts,           \* the number of host addresses (start)
    cPc,                 \* "entry", "loop", "returned"
    cI,                  \* the position of the loop in arg_networks
    is_ok,               \* the local of the same name
    cPrinted,            \* what the cli printed itself: prefix and errors
    cWrapped,            \* the wrapper calls: network and returned status
    cResult              \* the value the cli returned

cliVars == <<cCommand, arg_networks, arg_hosts, cPc, cI, is_ok, cPrinted, cWrapped, cResult>>

vars == <<portVars, runtimeVars, deployVars, testVars, buildVars, wrapVars, imageVars, stageVars,
          cliVars>>

(***************************************************************************)
(* Optional values: None is the empty sequence, Some(v) the sequence <<v>>.*)
(***************************************************************************)
None == <<>>
Some(v) == <<v>>

Min(a, b) == IF a < b THEN a ELSE b

(***************************************************************************)
(* Port allocator.                                                         *)
(***************************************************************************)
ChallengeIndices == 0 .. (NumChallenges - 1)

\* The base ports a user can configure (argparse type=int accepts any integer).
BasePorts == {-1, 0, 7, 65533}

\* start(): port_generator(context.port + get_challenge_index(...) * CHALLENGE_MAX_PORTS)
GeneratorBase(i) == cfgPort + i * CHALLENGE_MAX_PORTS

\* port_generator: max_port = min(port + CHALLENGE_MAX_PORTS, MAX_TCP_PORT),
\* computed once from the initial port.
max_port(b) == Min(b + CHALLENGE_MAX_PORTS, MAX_TCP_PORT)

\* The guard of the first loop of port_generator: break when it holds.
port_generator_break(port, b) == port < 0 \/ port > max_port(b)

\* One next() on a generator in state [port, exhausted] that was started at b:
\* the value yielded and the state afterwards.
generator_next(g, b) ==
    IF ~g.exhausted /\ ~port_generator_break(g.port, b)
    THEN [value |-> Some(g.port), port |-> g.port + 1, exhausted |-> FALSE]
    ELSE [value |-> None, port |-> g.port, exhausted |-> TRUE]

\* n successive next() calls: the values yielded, in order, and the final state.
RECURSIVE generator_take(_, _, _)
generator_take(g, b, n) ==
    IF n = 0
    THEN [values |-> <<>>, port |-> g.port, exhausted |-> g.exhausted]
    ELSE LET y == generator_next(g, b)
             r == generator_take([port |-> y.port, exhausted |-> y.exhausted], b, n - 1)
         IN  [values |-> <<y.value>> \o r.values, port |-> r.port, exhausted |-> r.exhausted]

GeneratorState(i) == [port |-> genPort[i], exhausted |-> genExhausted[i]]

PortsConfig ==
    /\ cfgPort \in BasePorts
    /\ CHALLENGE_MAX_PORTS \in 1 .. MaxSpan
    /\ genPort = [i \in ChallengeIndices |-> cfgPort + i * CHALLENGE_MAX_PORTS]
    /\ genExhausted = [i \in ChallengeIndices |-> FALSE]
    /\ genOut = [i \in ChallengeIndices |-> <<>>]

\* The allocator state of the specifications that do not allocate ports.
PortsIdle ==
    /\ cfgPort = 0
    /\ CHALLENGE_MAX_PORTS = 1
    /\ genPort = [i \in ChallengeIndices |-> i]
    /\ genExhausted = [i \in ChallengeIndices |-> FALSE]
    /\ genOut = [i \in ChallengeIndices |-> <<>>]

\* n next() calls on the allocator of challenge i.
GeneratorAdvance(i, n) ==
    LET r == generator_take(GeneratorState(i), GeneratorBase(i), n)
    IN  /\ genOut' = [genOut EXCEPT ![i] = @ \o r.values]
        /\ genPort' = [genPort EXCEPT ![i] = r.port]
        /\ genExhausted' = [genExhausted EXCEPT ![i] = r.exhausted]
        /\ UNCHANGED <<cfgPort, CHALLENGE_MAX_PORTS>>

\* One next() on the allocator of challenge i.
port_generator(i) ==
    /\ Len(genOut[i]) < MaxCalls
    /\ GeneratorAdvance(i, 1)

(***************************************************************************)
(* Errors (error.py): every LibError is a record of its kind and fields.   *)
(***************************************************************************)
BuildError(context, msg) == [kind |-> "Build", context |-> context, msg |-> msg]
DeployError(context, msg) == [kind |-> "Deploy", context |-> context, msg |-> msg]
SkipError == [kind |-> "Skip", context |-> "", msg |-> ""]

Range(seq) == {seq[k] : k \in 1 .. Len(seq)}

(***************************************************************************)
(* The declarative model (models/challenge.py, models/deploy/docker.py).   *)
(* Lists are 1-based here: the code's index i is position i + 1.           *)
(***************************************************************************)
Port(value, public) == [value |-> value, public |-> public]
DeployDocker(healthcheck, ports) == [healthcheck |-> healthcheck, ports |-> ports]
Track(deploy, challenges, test) == [deploy |-> deploy, challenges |-> challenges, test |-> test]

\* DeployDocker.has_healthcheck
has_healthcheck(deployer) == deployer.healthcheck

\* DeployDocker.get_ports
get_ports(deployer) == deployer.ports

\* The public ports of a deploy, in declaration order.
PublicPorts(deployer) == SelectSeq(deployer.ports, LAMBDA p : p.public)

(***************************************************************************)
(* The container runtime: containers are identified by name; a container   *)
(* records the host-port bindings it was run with and who created it.      *)
(***************************************************************************)
ContainerNames == {c.name : c \in containers}

\* A text is the sequence of its characters; a literal that holds no space
\* and no upper-case letter may stand as one element.
Digits == <<"0", "1", "2", "3", "4", "5", "6", "7", "8", "9">>

\* str(i) of an index below 10.
str(i) == <<Digits[i + 1]>>

\* str.lower() on one character.
lower(ch) ==
    CASE ch = "X" -> "x"
      [] ch = "Y" -> "y"
      [] ch = "Z" -> "z"
      [] OTHER -> ch

\* to_docker_tag without repository: text.replace(" ", "-").lower()
to_docker_tag(text) ==
    [k \in 1 .. Len(text) |-> lower(IF text[k] = " " THEN "-" ELSE text[k])]

\* DeployDocker.get_container_name of a context that has a network:
\* to_docker_tag(f"{context.network}-{context.name}")
get_container_name(network, name) == to_docker_tag(network \o <<"-">> \o name)

\* cmd/docker/start.py start, cmd/docker/stop.py stop: the context name
\* f"{track.tag or track.name}-{i}" of deploy d of the track at challenge
\* index c, whose name is "t" followed by its index and which has no tag.
DeployName(c, d) == <<"t">> \o str(c) \o <<"-">> \o str(d - 1)

DEPLOY_NETWORK == <<"net">>

(***************************************************************************)
(* docker_start.  A scenario names the first step of the call that fails   *)
(* (or "ok"); the runtime decides it, except that a run can only succeed   *)
(* when the name is free and only conflict when the name is taken.         *)
(***************************************************************************)
RunOutcomes(exists) ==
    IF exists
    THEN {"conflict", "image_not_found", "api_error", "run_raise"}
    ELSE {"ok", "image_not_found", "api_error", "start_failed", "run_raise"}

StartScenarios(client, exists) ==
    IF ~client
    THEN {"no_client"}
    ELSE {"no_dockerfile", "bad_args", "build_error", "build_raise", "bad_env"}
         \cup RunOutcomes(exists)

\* The call reaches the port-binding loop (lines 195-201).
docker_start_allocates(scen) ==
    scen \notin {"no_client", "no_dockerfile", "bad_args", "build_error", "build_raise"}

\* The call ends with an exception that docker_start does not catch.
docker_start_raises(scen) == scen \in {"build_raise", "run_raise"}

\* containers.run created a container.
docker_start_creates(scen) == scen \in {"ok", "start_failed"}

\* docker_start that reports a name in use as a Skip whatever skip_reuse is.
docker_start_errors_always_skip(name, skip_reuse, scen) ==
    CASE scen = "no_client" -> <<BuildError("Docker", "client not initialized")>>
      [] scen = "no_dockerfile" -> <<BuildError("Dockerfile", "is not a file")>>
      [] scen = "bad_args" -> <<BuildError(name, "invalid build args")>>
      [] scen = "build_error" -> <<BuildError("Dockerfile", "failed to build")>>
      [] scen = "bad_env" -> <<BuildError(name, "invalid environment")>>
      [] scen = "image_not_found" -> <<DeployError(name, "image not found")>>
      [] scen = "conflict" -> <<SkipError>>
      [] scen \in {"api_error", "start_failed"} -> <<DeployError(name, "failed to deploy")>>
      [] OTHER -> <<>>

\* The error list docker_start returns.
docker_start_errors(name, skip_reuse, scen) ==
    CASE scen = "no_client" -> <<BuildError("Docker", "client not initialized")>>
      [] scen = "no_dockerfile" -> <<BuildError("Dockerfile", "is not a file")>>
      [] scen = "bad_args" -> <<BuildError(name, "invalid build args")>>
      [] scen = "build_error" -> <<BuildError("Dockerfile", "failed to build")>>
      [] scen = "bad_env" -> <<BuildError(name, "invalid environment")>>
      [] scen = "image_not_found" -> <<DeployError(name, "image not found")>>
      [] scen = "conflict" ->
            IF skip_reuse
            THEN <<SkipError>>
            ELSE <<DeployError(name, "failed to deploy due to duplicate container")>>
      [] scen \in {"api_error", "start_failed"} -> <<DeployError(name, "failed to deploy")>>
      [] OTHER -> <<>>

\* port_bindings: each public port with the value the allocator yielded.
port_bindings(deployer, values) ==
    [k \in 1 .. Len(values) |-> <<PublicPorts(deployer)[k].value, values[k]>>]

(***************************************************************************)
(* docker_stop.                                                            *)
(***************************************************************************)
StopScenarios(client, exists) ==
    IF ~client
    THEN {"no_client"}
    ELSE IF exists
         THEN {"ok", "api_error", "stop_raise"}
         ELSE {"not_found", "api_error", "stop_raise"}

docker_stop_raises(scen) == scen = "stop_raise"

docker_stop_removes(scen) == scen = "ok"

\* The error list docker_stop returns: the list built for an APIError
\* (line 316) is not returned.
docker_stop_errors(name, skip_not_found, scen) ==
    CASE scen = "no_client" -> <<BuildError("Docker", "client not initialized")>>
      [] scen = "not_found" ->
            IF skip_not_found
            THEN <<SkipError>>
            ELSE <<DeployError(name, "failed to stop")>>
      [] OTHER -> <<>>

(***************************************************************************)
(* The start and stop calls of the docker start / docker stop commands.    *)
(***************************************************************************)
TrackDeploys(c) == 1 .. Len(track[c].deploy)

NoCall == [op |-> "none", name |-> <<>>, flag |-> FALSE, scen |-> "none",
           errors |-> <<>>, raised |-> FALSE, existed |-> FALSE]

DockerStart(c, d, skip_reuse) ==
    LET deployer == track[c].deploy[d]
        name == DeployName(c, d)
        cname == get_container_name(DEPLOY_NETWORK, name)
    IN  \E scen \in StartScenarios(docker_client, cname \in ContainerNames) :
          LET n == IF cfgHost /\ docker_start_allocates(scen)
                   THEN Len(PublicPorts(deployer)) ELSE 0
              taken == generator_take(GeneratorState(c), GeneratorBase(c), n)
          IN  /\ Len(genOut[c]) + n <= MaxCalls
              /\ GeneratorAdvance(c, n)
              /\ containers' =
                    IF docker_start_creates(scen)
                    THEN containers \cup
                         {[name |-> cname, network |-> DEPLOY_NETWORK, by |-> "start",
                           running |-> scen = "ok",
                           bindings |-> port_bindings(deployer, taken.values)]}
                    ELSE containers
              /\ dLast' = [op |-> "start", name |-> cname, flag |-> skip_reuse,
                           scen |-> scen,
                           errors |-> IF docker_start_raises(scen) THEN <<>>
                                      ELSE docker_start_errors(name, skip_reuse, scen),
                           raised |-> docker_start_raises(scen),
                           existed |-> cname \in ContainerNames]
              /\ UNCHANGED <<track, docker_client, networks, cfgHost, dChallenge>>

DockerStop(c, d, skip_not_found) ==
    LET name == DeployName(c, d)
        cname == get_container_name(DEPLOY_NETWORK, name)
    IN  \E scen \in StopScenarios(docker_client, cname \in ContainerNames) :
          /\ containers' =
                IF docker_stop_removes(scen)
                THEN {x \in containers : x.name # cname}
                ELSE containers
          /\ dLast' = [op |-> "stop", name |-> cname, flag |-> skip_not_found,
                       scen |-> scen,
                       errors |-> IF docker_stop_raises(scen) THEN <<>>
                                  ELSE docker_stop_errors(name, skip_not_found, scen),
                       raised |-> docker_stop_raises(scen),
                       existed |-> cname \in ContainerNames]
          /\ UNCHANGED <<track, docker_client, networks, cfgHost, dChallenge, portVars>>

\* The deploy lists of the tracks the start / stop commands are run on.
DeployShapes ==
    { <<DeployDocker(FALSE, <<Port(80, TRUE)>>)>>,
      <<DeployDocker(TRUE, <<Port(80, TRUE), Port(22, FALSE)>>),
        DeployDocker(FALSE, <<Port(8080, TRUE)>>)>> }

DeployInit ==
    /\ PortsConfig
    /\ cfgPort \in {7, 65533}
    /\ \E shape \in DeployShapes : track = [c \in ChallengeIndices |-> Track(shape, <<>>, <<>>)]
    /\ docker_client = TRUE
    /\ containers = {}
    /\ networks = {DEPLOY_NETWORK}
    /\ cfgHost \in BOOLEAN
    /\ dChallenge \in {0, NumChallenges - 1}
    /\ dLast = NoCall

DeployIdle ==
    /\ cfgHost = FALSE
    /\ dChallenge = 0
    /\ dLast = NoCall

RuntimeIdle ==
    /\ track = [c \in ChallengeIndices |-> Track(<<>>, <<>>, <<>>)]
    /\ docker_client = TRUE
    /\ containers = {}
    /\ networks = {}

(***************************************************************************)
(* The Docker test kind: TestDocker.build (models/test/docker.py).         *)
(* Challenge ids and host indices are 0-based as in the code.              *)
(***************************************************************************)
TestError(context, expected, actual, error) ==
    [kind |-> "Test", context |-> context, expected |-> expected,
     actual |-> actual, error |-> error]

Host(index) == Some(index)
Flag(regex, values) == [regex |-> regex, values |-> values]
Challenge(host, flags) == [host |-> host, flags |-> flags]
TestDocker(challenges) == [challenges |-> challenges]

\* The track the test stage works on.
TestTrack == track[0]

\* Flag.build: the resolved values of a flag definition, in order.
flag_build(flag_def) == flag_def.values

\* Python list indexing with an index that is not negative: the element, or
\* None where the code raises IndexError.
list_get(seq, index) ==
    IF index < Len(seq) THEN Some(seq[index + 1]) ELSE None

\* Lines 148-165: the ids of the selected challenges in dict order (first
\* insertion), all challenges when the test names none.
RECURSIVE dict_keys(_)
dict_keys(ids) ==
    IF ids = <<>> THEN <<>>
    ELSE LET rest == dict_keys(SubSeq(ids, 1, Len(ids) - 1))
             last == ids[Len(ids)]
         IN  IF last \in Range(rest) THEN rest ELSE Append(rest, last)

valid_id(challenge_id, challenges) ==
    ~(challenge_id < 0 \/ challenge_id >= Len(challenges))

selected_challenges(tester, challenges) ==
    IF tester.challenges # <<>>
    THEN dict_keys(SelectSeq(tester.challenges, LAMBDA id : valid_id(id, challenges)))
    ELSE [k \in 1 .. Len(challenges) |-> k - 1]

\* Lines 151-158: one "invalid id" error per named id that is out of range.
invalid_id_errors(tester, challenges) ==
    LET bad == SelectSeq(tester.challenges, LAMBDA id : ~valid_id(id, challenges))
    IN  [k \in 1 .. Len(bad) |-> BuildError(<<"Challenge", bad[k]>>, "invalid id")]

\* Lines 171-197: how the host reference of a challenge resolves.
host_resolution(challenge, deployers) ==
    IF challenge.host = None THEN "no_host"
    ELSE LET index == challenge.host[1]
         IN  IF index < 0 \/ index > Len(deployers) THEN "invalid_host"
             ELSE IF list_get(deployers, index) = None THEN "index_error"
             ELSE IF get_ports(list_get(deployers, index)[1]) = <<>> THEN "no_ports"
             ELSE "ok"

\* The verifier contexts with the inner loop over the flag values left out:
\* one context per flag definition, for its first value.
RECURSIVE flag_contexts_first_value(_, _, _, _)
flag_contexts_first_value(challenge_id, host, port, flags) ==
    IF flags = <<>> THEN <<>>
    ELSE LET flag_def == flags[1]
             values == flag_build(flag_def)
         IN  [k \in 1 .. Min(1, Len(values)) |->
                 [challenge_id |-> challenge_id,
                  challenge_host |-> host,
                  challenge_port |-> port,
                  flag |-> values[k],
                  flag_type |-> IF flag_def.regex THEN "regex" ELSE "static"]]
             \o flag_contexts_first_value(challenge_id, host, port, Tail(flags))

\* Lines 199-219: the verifier contexts of one challenge, one per flag value.
RECURSIVE flag_contexts(_, _, _, _)
flag_contexts(challenge_id, host, port, flags) ==
    IF flags = <<>> THEN <<>>
    ELSE LET flag_def == flags[1]
             values == flag_build(flag_def)
         IN  [k \in 1 .. Len(values) |->
                 [challenge_id |-> challenge_id,
                  challenge_host |-> host,
                  challenge_port |-> port,
                  flag |-> values[k],
                  flag_type |-> IF flag_def.regex THEN "regex" ELSE "static"]]
             \o flag_contexts(challenge_id, host, port, Tail(flags))

\* Lines 167-219: the loop over the selected challenges.  The result holds
\* the threads created, the errors appended and whether the loop ended with
\* an IndexError.
RECURSIVE challenge_loop(_, _, _)
challenge_loop(ids, challenges, deployers) ==
    IF ids = <<>>
    THEN [threads |-> <<>>, errors |-> <<>>, raised |-> FALSE]
    ELSE LET challenge_id == ids[1]
             challenge == challenges[challenge_id + 1]
             res == host_resolution(challenge, deployers)
             rest == challenge_loop(Tail(ids), challenges, deployers)
         IN  CASE res = "index_error" ->
                    [threads |-> <<>>, errors |-> <<>>, raised |-> TRUE]
               [] res = "invalid_host" ->
                    [rest EXCEPT !.errors =
                        <<BuildError(<<"Challenge", challenge_id>>, "invalid host")>> \o @]
               [] res = "no_ports" ->
                    [rest EXCEPT !.errors =
                        <<BuildError(<<"Challenge", challenge_id>>, "no exposed ports")>> \o @]
               [] res = "no_host" ->
                    [rest EXCEPT !.threads =
                        flag_contexts(challenge_id, None, None, challenge.flags) \o @]
               [] OTHER ->
                    [rest EXCEPT !.threads =
                        flag_contexts(challenge_id,
                                      Some(challenge.host[1]),
                                      Some(get_ports(list_get(deployers, challenge.host[1])[1])[1].value),
                                      challenge.flags) \o @]

\* What the file system and the image build do to one build call.
BuildScenarios ==
    [dockerfile : BOOLEAN, args : BOOLEAN, env : BOOLEAN,
     image : {"ok", "build_error", "raise"}]

\* Lines 113-135: the errors of the two argument-resolution loops.
argument_errors(scen) ==
    (IF scen.args THEN <<>> ELSE <<BuildError("Dockerfile", "invalid build args")>>)
    \o (IF scen.env THEN <<>> ELSE <<BuildError("Dockerfile", "invalid environment")>>)

\* The outcome of one call set in bPc / bResult, and the threads to run.
BuildFinish(pc, result, threads, errors) ==
    /\ bPc' = pc
    /\ bResult' = result
    /\ bThreads' = threads
    /\ bErrors' = errors
    /\ bState' = [k \in 1 .. Len(threads) |-> "new"]
    /\ bThreadErrors' = [k \in 1 .. Len(threads) |-> <<>>]
    /\ bOutcome' = [k \in 1 .. Len(threads) |-> "none"]
    /\ bException' = "none"
    /\ UNCHANGED bTester

\* The call ends with an exception: nothing is returned.
BuildRaise(exception, errors) ==
    /\ bPc' = "raised"
    /\ bException' = exception
    /\ bResult' = <<>>
    /\ bThreads' = <<>>
    /\ bErrors' = errors
    /\ bState' = <<>>
    /\ bThreadErrors' = <<>>
    /\ bOutcome' = <<>>
    /\ UNCHANGED bTester

\* Lines 98-219: everything build does before it starts its threads.
TestDockerBuild ==
    /\ bPc = "called"
    /\ \E scen \in BuildScenarios :
        LET tester == TestTrack.test[bTester]
            challenges == TestTrack.challenges
            deployers == TestTrack.deploy
            errors == argument_errors(scen)
            id_errors == errors \o invalid_id_errors(tester, challenges)
            loop == challenge_loop(selected_challenges(tester, challenges), challenges, deployers)
        IN  CASE ~docker_client ->
                    BuildFinish("returned", <<BuildError("Docker", "no client initialized")>>, <<>>, <<>>)
              [] docker_client /\ ~scen.dockerfile ->
                    BuildFinish("returned", <<BuildError("Dockerfile", "is not a file")>>, <<>>, <<>>)
              [] docker_client /\ scen.dockerfile /\ scen.image = "build_error" ->
                    BuildFinish("returned",
                                errors \o <<BuildError("Dockerfile", "failed to build")>>, <<>>, errors)
              [] docker_client /\ scen.dockerfile /\ scen.image = "raise" ->
                    BuildRaise("DockerException", errors)
              [] OTHER ->
                    IF tester.challenges # <<>> /\ id_errors # <<>>
                    THEN BuildFinish("returned", id_errors, <<>>, id_errors)
                    ELSE IF loop.raised
                    THEN BuildRaise("IndexError", errors)
                    ELSE BuildFinish("starting", <<>>, loop.threads, errors \o loop.errors)

\* Lines 221-222: thread.start() for the next thread of test_threads.
ThreadStart ==
    /\ bPc = "starting"
    /\ \E k \in 1 .. Len(bThreads) :
        /\ bState[k] = "new"
        /\ \A j \in 1 .. (k - 1) : bState[j] # "new"
        /\ bState' = [bState EXCEPT ![k] = "running"]
    /\ UNCHANGED <<bPc, bTester, bErrors, bThreads, bThreadErrors, bOutcome, bResult, bException>>

\* The loop of line 221 is over: build goes on to join its threads.
ThreadsStarted ==
    /\ bPc = "starting"
    /\ \A k \in 1 .. Len(bThreads) : bState[k] # "new"
    /\ bPc' = "joining"
    /\ UNCHANGED <<bTester, bErrors, bThreads, bState, bThreadErrors, bOutcome, bResult, bException>>

\* What a verifier container does: it exits 0, or containers.run raises
\* ContainerError with a stderr that holds the marker, holds no marker or is
\* not valid UTF-8, or the runtime raises another exception.
VerifierOutcomes == {"exit_0", "fail_marker", "fail_no_marker", "fail_undecodable", "exception"}

\* bytes.decode(): the text, or None where it raises UnicodeDecodeError.
decode(outcome) ==
    CASE outcome = "fail_marker" -> Some("FLAG{bad}")
      [] outcome = "fail_no_marker" -> Some("stderr")
      [] OTHER -> None

\* docker_test (lines 32-71): the list context.errors after a verifier ended
\* with the given outcome, or None when the thread died with an exception of
\* an except clause.
docker_test(context, outcome) ==
    CASE outcome = "exit_0" -> Some(<<>>)
      [] outcome = "fail_marker" ->
            Some(<<TestError(<<"Challenge", context.challenge_id>>, context.flag,
                             decode(outcome), None)>>)
      [] outcome = "fail_no_marker" ->
            Some(<<TestError(<<"Challenge", context.challenge_id>>, context.flag,
                             None, Some("ValueError"))>>)
      [] outcome = "fail_undecodable" -> None
      [] OTHER ->
            Some(<<TestError(<<"Challenge", context.challenge_id>>, context.flag,
                             None, Some("Exception"))>>)

\* One verifier thread runs docker_test to its end.
VerifierRun(k) ==
    /\ bPc \in {"starting", "joining"}
    /\ bState[k] = "running"
    /\ \E outcome \in VerifierOutcomes :
        LET r == docker_test(bThreads[k], outcome)
        IN  /\ bState' = [bState EXCEPT ![k] = IF r = None THEN "died" ELSE "done"]
            /\ bThreadErrors' = [bThreadErrors EXCEPT ![k] = IF r = None THEN @ ELSE @ \o r[1]]
            /\ bOutcome' = [bOutcome EXCEPT ![k] = outcome]
    /\ UNCHANGED <<bPc, bTester, bErrors, bThreads, bResult, bException>>

RECURSIVE Flatten(_)
Flatten(seqs) == IF seqs = <<>> THEN <<>> ELSE seqs[1] \o Flatten(Tail(seqs))

\* ThreadsJoined without the join loop: the lists are merged at once.
ThreadsJoined_without_join ==
    /\ bPc = "joining"
    /\ bPc' = "returned"
    /\ bResult' = bErrors \o Flatten(bThreadErrors)
    /\ UNCHANGED <<bTester, bErrors, bThreads, bState, bThreadErrors, bOutcome, bException>>

\* Lines 224-230: every thread is joined, then the lists are merged in
\* thread order and returned.
ThreadsJoined ==
    /\ bPc = "joining"
    /\ \A k \in 1 .. Len(bThreads) : bState[k] \in {"done", "died"}
    /\ bPc' = "returned"
    /\ bResult' = bErrors \o Flatten(bThreadErrors)
    /\ UNCHANGED <<bTester, bErrors, bThreads, bState, bThreadErrors, bOutcome, bException>>

BuildIdle ==
    /\ bPc = "idle"
    /\ bTester = 0
    /\ bErrors = <<>>
    /\ bThreads = <<>>
    /\ bState = <<>>
    /\ bThreadErrors = <<>>
    /\ bOutcome = <<>>
    /\ bResult = <<>>
    /\ bException = "none"

\* The challenges, deploy lists and tests the Docker test kind is run on.
TestDeployers == <<DeployDocker(TRUE, <<Port(80, FALSE), Port(443, TRUE)>>), DeployDocker(FALSE, <<>>)>>

ChallengeShapes ==
    { Challenge(None, <<Flag(FALSE, <<"FLAG{ok}">>)>>),
      Challenge(Host(0), <<Flag(TRUE, <<"FLAG{a}", "FLAG{b}">>)>>),
      Challenge(Host(0), <<Flag(FALSE, <<>>)>>),
      Challenge(Host(1), <<Flag(FALSE, <<"FLAG{ok}">>)>>),
      Challenge(Host(2), <<Flag(FALSE, <<"FLAG{ok}">>)>>),
      Challenge(Host(3), <<Flag(TRUE, <<"FLAG{ok}">>)>>),
      Challenge(Host(-1), <<Flag(FALSE, <<"FLAG{ok}">>)>>) }

ChallengeLists ==
    UNION {[1 .. n -> ChallengeShapes] : n \in 1 .. MaxTrackChallenges}

TesterShapes == {TestDocker(<<>>), TestDocker(<<1, 1>>), TestDocker(<<0, MaxTrackChallenges>>)}

\* The number of flag values the challenges of a list declare.
RECURSIVE FlagValueCount(_)
FlagValueCount(cs) ==
    IF cs = <<>> THEN 0
    ELSE Len(Flatten([k \in 1 .. Len(cs[1].flags) |-> flag_build(cs[1].flags[k])]))
         + FlagValueCount(Tail(cs))

DockerTestInit ==
    /\ \E cs \in ChallengeLists : \E t \in TesterShapes :
          /\ FlagValueCount(cs) <= MaxVerifiers
          /\ track = [c \in ChallengeIndices |->
                      IF c = 0 THEN Track(TestDeployers, cs, <<t>>) ELSE Track(<<>>, <<>>, <<>>)]
    /\ docker_client \in BOOLEAN
    /\ containers = {}
    /\ networks = {}
    /\ bPc = "called"
    /\ bTester = 1
    /\ bErrors = <<>>
    /\ bThreads = <<>>
    /\ bState = <<>>
    /\ bThreadErrors = <<>>
    /\ bOutcome = <<>>
    /\ bResult = <<>>
    /\ bException = "none"

(***************************************************************************)
(* The test-stage callback test() (cmd/test.py).                           *)
(***************************************************************************)
\* to_docker_tag(f"ctf-builder_test_{track.tag or track.name}")
TestNetworkName == to_docker_tag(<<"ctf-builder_test_">> \o <<"track">>)

\* DeployContext.name of deploy d: f"host_{i}"
HostName(d) == <<"host_">> \o str(d - 1)

TestContainer(d) == get_container_name(TestNetworkName, HostName(d))

\* test() without its finally clause: an exception leaves the call at once.
TestLeave_without_finally(exit) ==
    /\ tPc' = IF exit = "raise" THEN "raised" ELSE "finally"
    /\ tI' = 1
    /\ tExit' = exit

\* The try block is left: the finally clause runs next.
TestLeave(exit) ==
    /\ tPc' = "finally"
    /\ tI' = 1
    /\ tExit' = exit

\* Lines 31-40: the network is created, or the call returns at once.
TestCreateNetwork ==
    /\ tPc = "entry"
    /\ IF ~docker_client
       THEN /\ tPc' = "deploy"
            /\ UNCHANGED <<tNetwork, tResult, networks>>
       ELSE \E outcome \in IF TestNetworkName \in networks
                           THEN {"api_error", "raise"}
                           ELSE {"ok", "api_error", "raise"} :
              /\ tPc' = CASE outcome = "ok" -> "deploy"
                          [] outcome = "api_error" -> "returned"
                          [] OTHER -> "raised"
              /\ tNetwork' = (outcome = "ok")
              /\ networks' = IF outcome = "ok" THEN networks \cup {TestNetworkName} ELSE networks
              /\ tResult' = IF outcome = "api_error"
                            THEN <<DeployError("Network", "failed to start")>>
                            ELSE tResult
    /\ UNCHANGED <<tI, tErrors, tRunning, tWaiting, tAttempt, tExit, tStarts, tStartOk, tHealthy, tLog>>
    /\ UNCHANGED <<track, docker_client, containers>>

\* Lines 47-69: one iteration of the loop over track.deploy.
TestStartDeploy ==
    /\ tPc = "deploy"
    /\ tNetwork
    /\ tI <= Len(TestTrack.deploy)
    /\ LET deployer == TestTrack.deploy[tI]
           cname == TestContainer(tI)
       IN  \E scen \in StartScenarios(docker_client, cname \in ContainerNames) :
             LET deployer_errors == docker_start_errors(HostName(tI), FALSE, scen)
             IN  /\ containers' =
                       IF docker_start_creates(scen)
                       THEN containers \cup
                            {[name |-> cname, network |-> TestNetworkName, by |-> "test",
                              running |-> scen = "ok",
                              bindings |-> <<>>]}
                       ELSE containers
                 /\ IF docker_start_raises(scen)
                    THEN /\ TestLeave("raise")
                         /\ UNCHANGED <<tErrors, tRunning, tWaiting, tStartOk>>
                    ELSE /\ tErrors' = tErrors \o deployer_errors
                         /\ tI' = tI + 1
                         /\ tRunning' = IF deployer_errors = <<>>
                                        THEN Append(tRunning, tI) ELSE tRunning
                         /\ tWaiting' = IF deployer_errors = <<>> /\ has_healthcheck(deployer)
                                        THEN Append(tWaiting, tI) ELSE tWaiting
                         /\ tStartOk' = IF deployer_errors = <<>>
                                        THEN tStartOk \cup {tI} ELSE tStartOk
                         /\ UNCHANGED <<tPc, tExit>>
                 /\ tStarts' = Append(tStarts, scen)
    /\ UNCHANGED <<tNetwork, tAttempt, tHealthy, tLog, tResult>>
    /\ UNCHANGED <<track, docker_client, networks>>

\* Lines 71-72: after the loop, errors end the run.
TestCheckErrors ==
    /\ tPc = "deploy"
    /\ ~tNetwork \/ tI > Len(TestTrack.deploy)
    /\ IF tErrors # <<>>
       THEN TestLeave("return")
       ELSE /\ tPc' = "poll"
            /\ UNCHANGED <<tI, tExit>>
    /\ UNCHANGED <<tNetwork, tErrors, tRunning, tWaiting, tAttempt, tStarts, tStartOk, tHealthy, tLog, tResult>>
    /\ UNCHANGED runtimeVars

\* docker_healthcheck: only a container that exists and runs can be healthy.
CanBeHealthy(d) ==
    /\ docker_client
    /\ \E c \in containers : c.name = TestContainer(d) /\ c.running

\* A polling round that keeps every deploy in the waiting list.
TestPollRound_keeps_waiting ==
    /\ tPc = "poll"
    /\ tAttempt < DEPLOY_ATTEMPTS
    /\ \E healthy \in SUBSET {d \in Range(tWaiting) : CanBeHealthy(d)} :
         /\ tHealthy' = tHealthy \cup healthy
         /\ LET waiting_deployers_next == SelectSeq(tWaiting, LAMBDA d : d \notin healthy)
            IN  IF waiting_deployers_next = <<>>
                THEN /\ tPc' = "test"
                     /\ tI' = 1
                     /\ UNCHANGED <<tWaiting, tAttempt>>
                ELSE /\ tWaiting' = tWaiting
                     /\ tAttempt' = tAttempt + 1
                     /\ UNCHANGED <<tPc, tI>>
    /\ UNCHANGED <<tNetwork, tErrors, tRunning, tExit, tStarts, tStartOk, tLog, tResult>>
    /\ UNCHANGED runtimeVars

\* Lines 74-92: one round of health polling.
TestPollRound ==
    /\ tPc = "poll"
    /\ tAttempt < DEPLOY_ATTEMPTS
    /\ \E healthy \in SUBSET {d \in Range(tWaiting) : CanBeHealthy(d)} :
         /\ tHealthy' = tHealthy \cup healthy
         /\ LET waiting_deployers_next == SelectSeq(tWaiting, LAMBDA d : d \notin healthy)
            IN  IF waiting_deployers_next = <<>>
                THEN /\ tPc' = "test"
                     /\ tI' = 1
                     /\ UNCHANGED <<tWaiting, tAttempt>>
                ELSE /\ tWaiting' = waiting_deployers_next
                     /\ tAttempt' = tAttempt + 1
                     /\ UNCHANGED <<tPc, tI>>
    /\ UNCHANGED <<tNetwork, tErrors, tRunning, tExit, tStarts, tStartOk, tLog, tResult>>
    /\ UNCHANGED runtimeVars

\* Polling that goes on to the testers when its rounds are used up.
TestPollExhausted_proceeds ==
    /\ tPc = "poll"
    /\ tAttempt = DEPLOY_ATTEMPTS
    /\ tPc' = "test"
    /\ tI' = 1
    /\ UNCHANGED <<tNetwork, tErrors, tRunning, tWaiting, tAttempt, tExit, tStarts, tStartOk,
                   tHealthy, tLog, tResult>>
    /\ UNCHANGED runtimeVars

\* Lines 93-97: the rounds are used up.
TestPollExhausted ==
    /\ tPc = "poll"
    /\ tAttempt = DEPLOY_ATTEMPTS
    /\ tErrors' = Append(tErrors, DeployError("Deployments", "did not start successfully"))
    /\ TestLeave("return")
    /\ UNCHANGED <<tNetwork, tRunning, tWaiting, tAttempt, tStarts, tStartOk, tHealthy, tLog, tResult>>
    /\ UNCHANGED runtimeVars

\* Lines 99-109: build is called on the next tester.
TestCallBuild ==
    /\ tPc = "test"
    /\ tI <= Len(TestTrack.test)
    /\ tPc' = "in_build"
    /\ bPc' = "called"
    /\ bTester' = tI
    /\ UNCHANGED <<bErrors, bThreads, bState, bThreadErrors, bOutcome, bResult, bException>>
    /\ UNCHANGED <<tNetwork, tI, tErrors, tRunning, tWaiting, tAttempt, tExit,
                   tStarts, tStartOk, tHealthy, tLog, tResult>>
    /\ UNCHANGED runtimeVars

\* Line 100: build returned its error list, or raised.
TestBuildDone ==
    /\ tPc = "in_build"
    /\ bPc \in {"returned", "raised"}
    /\ IF bPc = "returned"
       THEN /\ tErrors' = tErrors \o bResult
            /\ tI' = tI + 1
            /\ tPc' = "test"
            /\ UNCHANGED tExit
       ELSE /\ TestLeave("raise")
            /\ UNCHANGED tErrors
    /\ bPc' = "idle"
    /\ UNCHANGED <<bTester, bErrors, bThreads, bState, bThreadErrors, bOutcome, bResult, bException>>
    /\ UNCHANGED <<tNetwork, tRunning, tWaiting, tAttempt, tStarts, tStartOk, tHealthy, tLog, tResult>>
    /\ UNCHANGED runtimeVars

\* The loop of line 99 is over: the try block ends.
TestTestsDone ==
    /\ tPc = "test"
    /\ tI > Len(TestTrack.test)
    /\ TestLeave("return")
    /\ UNCHANGED <<tNetwork, tErrors, tRunning, tWaiting, tAttempt, tStarts, tStartOk, tHealthy, tLog, tResult>>
    /\ UNCHANGED runtimeVars

\* Lines 111-117: stop of the next running deploy; an exception is dropped.
TestStopDeploy ==
    /\ tPc = "finally"
    /\ tI <= Len(tRunning)
    /\ LET d == tRunning[tI]
           cname == TestContainer(d)
       IN  \E scen \in StopScenarios(docker_client, cname \in ContainerNames) :
             /\ containers' = IF docker_stop_removes(scen)
                              THEN {x \in containers : x.name # cname}
                              ELSE containers
             /\ tErrors' = IF docker_stop_raises(scen)
                           THEN tErrors
                           ELSE tErrors \o docker_stop_errors(HostName(d), FALSE, scen)
             /\ tLog' = Append(tLog, <<"stop", d, scen>>)
    /\ tI' = tI + 1
    /\ UNCHANGED <<tPc, tNetwork, tRunning, tWaiting, tAttempt, tExit, tStarts, tStartOk, tHealthy, tResult>>
    /\ UNCHANGED <<track, docker_client, networks>>

\* network.remove() fails while a running container is attached.
NetworkRemoveOutcomes ==
    IF \E c \in containers : c.network = TestNetworkName /\ c.running /\ c.by = "test"
    THEN {"api_error"}
    ELSE {"ok", "api_error"}

\* Lines 119-125: the network is removed (an exception is dropped) and the
\* call returns its errors or re-raises the exception of the try block.
TestRemoveNetwork ==
    /\ tPc = "finally"
    /\ tI > Len(tRunning)
    /\ IF tNetwork
       THEN \E outcome \in NetworkRemoveOutcomes :
              /\ networks' = IF outcome = "ok" THEN networks \ {TestNetworkName} ELSE networks
              /\ tLog' = Append(tLog, <<"remove_network", 0, outcome>>)
       ELSE UNCHANGED <<networks, tLog>>
    /\ tPc' = IF tExit = "raise" THEN "raised" ELSE "returned"
    /\ tResult' = IF tExit = "raise" THEN tResult ELSE tErrors
    /\ UNCHANGED <<tNetwork, tI, tErrors, tRunning, tWaiting, tAttempt, tExit, tStarts, tStartOk, tHealthy>>
    /\ UNCHANGED <<track, docker_client, containers>>

\* The tracks the test stage is run on.
TestTracks ==
    { Track(<<DeployDocker(TRUE, <<Port(80, FALSE)>>), DeployDocker(FALSE, <<>>)>>,
            <<Challenge(Host(0), <<Flag(FALSE, <<"FLAG{ok}">>)>>)>>,
            <<TestDocker(<<>>)>>),
      Track(<<DeployDocker(TRUE, <<Port(80, FALSE)>>), DeployDocker(TRUE, <<Port(80, FALSE)>>),
              DeployDocker(FALSE, <<Port(22, FALSE)>>)>>,
            <<Challenge(None, <<Flag(TRUE, <<"FLAG{a}">>)>>)>>,
            <<TestDocker(<<>>), TestDocker(<<0>>)>>) }

\* Containers a previous run left behind under the names of this track.
Leftovers(t) ==
    {[name |-> get_container_name(TestNetworkName, HostName(d)),
      network |-> TestNetworkName, by |-> "external",
      running |-> TRUE, bindings |-> <<>>] : d \in 1 .. Len(t.deploy)}

TestInit ==
    /\ \E t \in TestTracks :
          /\ track = [c \in ChallengeIndices |-> IF c = 0 THEN t ELSE Track(<<>>, <<>>, <<>>)]
          /\ \E left \in SUBSET Leftovers(t) : Cardinality(left) <= 1 /\ containers = left
    /\ docker_client \in BOOLEAN
    /\ networks \in {{}, {TestNetworkName}}
    /\ tPc = "entry"
    /\ tNetwork = FALSE
    /\ tI = 1
    /\ tErrors = <<>>
    /\ tRunning = <<>>
    /\ tWaiting = <<>>
    /\ tAttempt = 0
    /\ tExit = "none"
    /\ tStarts = <<>>
    /\ tStartOk = {}
    /\ tHealthy = {}
    /\ tLog = <<>>
    /\ tResult = <<>>

TestIdle ==
    /\ tPc = "idle"
    /\ tNetwork = FALSE
    /\ tI = 1
    /\ tErrors = <<>>
    /\ tRunning = <<>>
    /\ tWaiting = <<>>
    /\ tAttempt = 0
    /\ tExit = "none"
    /\ tStarts = <<>>
    /\ tStartOk = {}
    /\ tHealthy = {}
    /\ tLog = <<>>
    /\ tResult = <<>>


(***************************************************************************)
(* The challenge concurrency runner: cli_challenge_wrapper and the worker   *)
(* function cli_challenge (cmd/common.py).  A list object is identified by  *)
(* the position of the loop iteration that created it; every entry of a     *)
(* list carries the worker that appended it.                                *)
(***************************************************************************)
ChallengeNames == {"a", "b"}

\* error.py get_exit_status
get_exit_status(errors) ==
    IF errors = <<>> THEN TRUE
    ELSE IF \A k \in 1 .. Len(errors) : errors[k].kind = "Skip" THEN TRUE
    ELSE FALSE

\* What the stage callback of a worker does: it returns an error list or
\* raises an exception nothing catches.
CallbackOutcomes ==
    {[raised |-> FALSE, errors |-> e] :
        e \in {<<>>, <<SkipError>>, <<SkipError, DeployError("callback", "failed")>>}}
    \cup {[raised |-> TRUE, errors |-> <<>>]}

ParseError(path, msg) == [kind |-> "Parse", context |-> path, msg |-> msg]

\* Track.parse (models/challenge.py 92-104): the errors of a descriptor that
\* fails validation; cls(**data) on a JSON value that is not an object raises
\* TypeError, which parse does not catch.
Track_parse(kind) ==
    IF kind = "invalid_track"
    THEN <<ParseError("name", "field required"), ParseError("deploy.0.type", "invalid")>>
    ELSE <<>>

\* cli_challenge, lines 144-174: the errors the worker appends to its list.
cli_challenge(kind, skip, outcome) ==
    IF kind = "missing_json" THEN <<BuildError("challenge.json", "is not a file")>>
    ELSE IF kind = "invalid_json" THEN <<BuildError("challenge.json", "is not valid JSON")>>
    ELSE IF kind = "not_a_mapping" THEN <<>>
    ELSE IF kind = "invalid_track" THEN Track_parse(kind)
    ELSE IF skip /\ kind = "inactive" THEN <<SkipError>>
    ELSE outcome.errors

\* Whether cli_challenge reaches the call of the stage callback (line 172).
calls_callback(kind, skip) ==
    /\ kind \in {"inactive", "active"}
    /\ ~(skip /\ kind = "inactive")

\* A dict filled in list order keeps, for a key, the last position holding it.
dict_last(list, key) ==
    LET ks == {k \in 1 .. Len(list) : list[k] = key}
    IN  IF ks = {} THEN 0 ELSE CHOOSE k \in ks : \A j \in ks : j <= k

\* The list created once, before the loop: every iteration uses the same one.
errors_list_shared(k) == 1

\* Line 206: iteration k of the loop creates a list of its own.
errors_list(k) == k

Tagged(k, errors) == [n \in 1 .. Len(errors) |-> [by |-> k, error |-> errors[n]]]

Untagged(entries) == [n \in 1 .. Len(entries) |-> entries[n].error]

\* Lines 184-226: the challenge list is resolved, the lists, the map and the
\* threads are created.
WrapperEnter ==
    /\ wPc = "entry"
    /\ skip_inactive' = (wArg = None)
    /\ IF wArg = None /\ wRepo = None
       THEN /\ wPc' = "returned"
            /\ wResult' = FALSE
            /\ UNCHANGED <<wChallenges, wThreads, wErrors, error_map, wCallback>>
       ELSE LET next_challenges == IF wArg = None THEN wRepo[1] ELSE wArg[1]
            IN  /\ wChallenges' = next_challenges
                /\ wThreads' = [k \in 1 .. Len(next_challenges) |-> "new"]
                /\ wErrors' = [k \in 1 .. Len(next_challenges) |-> <<>>]
                /\ wCallback' = [k \in 1 .. Len(next_challenges) |-> "not_called"]
                /\ error_map' =
                      [n \in ChallengeNames |->
                          IF dict_last(next_challenges, n) = 0 THEN 0
                          ELSE errors_list(dict_last(next_challenges, n))]
                /\ wPc' = "starting"
                /\ UNCHANGED wResult
    /\ UNCHANGED <<wStage, wGiven, wArg, wRepo, wKind, running_queue, all_errors, wRemoved, wReports, wDone>>

\* Lines 228-229: the next thread is started.
WrapperStartThread ==
    /\ wPc = "starting"
    /\ \E k \in 1 .. Len(wThreads) :
          /\ wThreads[k] = "new"
          /\ \A j \in 1 .. (k - 1) : wThreads[j] # "new"
          /\ wThreads' = [wThreads EXCEPT ![k] = "alive"]
    /\ UNCHANGED <<wPc, wStage, wGiven, wArg, wRepo, wKind, skip_inactive, wChallenges, wErrors, error_map,
                   running_queue, all_errors, wRemoved, wReports, wCallback, wDone, wResult>>

\* Lines 231-243: every thread is started; the running queue is filled.
WrapperBeginPolling ==
    /\ wPc = "starting"
    /\ \A k \in 1 .. Len(wThreads) : wThreads[k] # "new"
    /\ wPc' = "polling"
    /\ running_queue' = [k \in 1 .. Len(wThreads) |-> k]
    /\ all_errors' = <<>>
    /\ UNCHANGED <<wStage, wGiven, wArg, wRepo, wKind, skip_inactive, wChallenges, wThreads, wErrors,
                   error_map, wRemoved, wReports, wCallback, wDone, wResult>>

\* The thread of worker k runs cli_challenge to its end.
WorkerRun(k) ==
    /\ wThreads[k] = "alive"
    /\ \E outcome \in CallbackOutcomes :
          LET kind == wKind[wChallenges[k]]
              called == calls_callback(kind, skip_inactive)
          IN  /\ wErrors' = [wErrors EXCEPT ![errors_list(k)] =
                                @ \o Tagged(k, cli_challenge(kind, skip_inactive, outcome))]
              /\ wCallback' = [wCallback EXCEPT ![k] =
                                  IF ~called THEN "not_called"
                                  ELSE IF outcome.raised THEN "raised" ELSE "returned"]
    /\ wThreads' = [wThreads EXCEPT ![k] = "dead"]
    /\ wDone' = Append(wDone, k)
    /\ UNCHANGED <<wPc, wStage, wGiven, wArg, wRepo, wKind, skip_inactive, wChallenges, error_map,
                   running_queue, all_errors, wRemoved, wReports, wResult>>

\* What the progress display answers to remove_task: the removal of a task
\* that was removed before is answered by the display library, with an
\* exception or not.
RemoveTaskOutcomes(task) == IF task \in wRemoved THEN {"ok", "raise"} ELSE {"ok"}

\* Lines 244-262: one round of the polling loop.
WrapperPoll ==
    /\ wPc = "polling"
    /\ running_queue # <<>>
    /\ LET thread == Head(running_queue)
           challenge == wChallenges[thread]
       IN  IF wThreads[thread] = "alive"
           THEN /\ running_queue' = Append(Tail(running_queue), thread)
                /\ UNCHANGED <<wPc, all_errors, wRemoved, wReports>>
           ELSE LET errors == wErrors[error_map[challenge]]
                    task == dict_last(wChallenges, challenge)
                IN  /\ running_queue' = Tail(running_queue)
                    /\ all_errors' = all_errors \o errors
                    /\ wReports' = Append(wReports, [challenge |-> challenge,
                                                     errors |-> errors])
                    /\ \E outcome \in RemoveTaskOutcomes(task) :
                          /\ wPc' = IF outcome = "raise" THEN "raised" ELSE wPc
                          /\ wRemoved' = wRemoved \cup {task}
    /\ UNCHANGED <<wStage, wGiven, wArg, wRepo, wKind, skip_inactive, wChallenges, wThreads, wErrors,
                   error_map, wCallback, wDone, wResult>>

\* Lines 264-267: the queue is empty; the exit status is returned.
WrapperReturn ==
    /\ wPc = "polling"
    /\ running_queue = <<>>
    /\ wPc' = "returned"
    /\ wResult' = get_exit_status(Untagged(all_errors))
    /\ UNCHANGED <<wStage, wGiven, wArg, wRepo, wKind, skip_inactive, wChallenges, wThreads, wErrors,
                   error_map, running_queue, all_errors, wRemoved, wReports, wCallback, wDone>>

\* The lists of names a command line can request.
RequestedLists == UNION {[1 .. n -> ChallengeNames] : n \in 0 .. MaxRequested}

\* What cli_challenge finds: no challenge.json; a file that is not JSON; a
\* JSON value that is not an object; an object that fails validation; a valid
\* track that is not active; a valid active track.
ChallengeKinds ==
    {"missing_json", "invalid_json", "not_a_mapping", "invalid_track", "inactive", "active"}

WrapperStart ==
    /\ wPc = "entry"
    /\ skip_inactive = FALSE
    /\ wChallenges = <<>>
    /\ wThreads = <<>>
    /\ wErrors = <<>>
    /\ error_map = [n \in ChallengeNames |-> 0]
    /\ running_queue = <<>>
    /\ all_errors = <<>>
    /\ wRemoved = {}
    /\ wReports = <<>>
    /\ wCallback = <<>>
    /\ wDone = <<>>
    /\ wResult = FALSE

\* "start" stands for every stage whose cli passes None for an empty list
\* (docker start, stop, deploy and list, k8s build).
Stages == {"start", "test"}

\* The `challenges` argument the cli of a stage passes: cmd/test.py passes
\* args.challenge as it is, the other stages pass None for an empty list.
cli_challenges(stage, given) ==
    IF stage = "test" THEN Some(given)
    ELSE IF given # <<>> THEN Some(given) ELSE None

\* The repository either has no challenges folder or holds both challenges.
WrapperInit ==
    /\ wStage \in Stages
    /\ wGiven \in RequestedLists
    /\ wArg = cli_challenges(wStage, wGiven)
    /\ wRepo \in {None, Some(<<"a", "b">>)}
    /\ wKind \in [ChallengeNames -> ChallengeKinds]
    /\ wKind["b"] \in {"missing_json", "inactive", "active"}
    /\ wRepo = None => \A n \in ChallengeNames : wKind[n] = "missing_json"
    /\ WrapperStart

WrapperIdle ==
    /\ wStage = "start"
    /\ wGiven = <<>>
    /\ wArg = None
    /\ wRepo = None
    /\ wKind = [n \in ChallengeNames |-> "missing_json"]
    /\ WrapperStart

(***************************************************************************)
(* BuildDocker.build (models/build/docker.py): the image is built, a        *)
(* container is created from it and every file-map entry is extracted.      *)
(* An entry is described by what its extraction meets.                      *)
(***************************************************************************)
\* "dest_is_dir": the local destination is a directory (line 91);
\* "not_found": get_archive raises NotFound; "api_error": it raises another
\* APIError; "directory": the tar stream holds a directory and its content;
\* "empty_directory": it holds one directory member; "symlink": it holds one
\* symbolic link, whose target is not in the stream; "regular": it holds one
\* regular file.
EntryKinds ==
    {"dest_is_dir", "not_found", "api_error", "directory", "empty_directory",
     "symlink", "regular"}

\* len(th.getmembers()) of the tar stream of an entry (2 stands for "several").
members_count(kind) == IF kind = "directory" THEN 2 ELSE 1

\* TarFile.extractfile(members[0]): a file object for a regular file, None for
\* a directory, and KeyError for a link whose target the stream lacks.
extractfile(kind) ==
    CASE kind = "regular" -> "file"
      [] kind = "symlink" -> "KeyError"
      [] OTHER -> "None"

\* Lines 86-133: one iteration of the loop, for entry k.
file_map_step(k, kind) ==
    IF kind = "dest_is_dir"
    THEN [errors |-> <<BuildError(<<"destination", k>>, "is a directory")>>,
          written |-> FALSE, raised |-> FALSE]
    ELSE IF kind = "not_found"
    THEN [errors |-> <<BuildError(<<"source", k>>, "was not found in container")>>,
          written |-> FALSE, raised |-> FALSE]
    ELSE IF kind = "api_error"
    THEN [errors |-> <<>>, written |-> FALSE, raised |-> TRUE]
    ELSE IF members_count(kind) # 1
    THEN [errors |-> <<BuildError(<<"source", k>>, "is a directory in the container")>>,
          written |-> FALSE, raised |-> FALSE]
    ELSE IF extractfile(kind) = "KeyError"
    THEN [errors |-> <<>>, written |-> FALSE, raised |-> TRUE]
    ELSE IF extractfile(kind) = "None"
    THEN [errors |-> <<BuildError(<<"source", k>>, "file cannot be extracted")>>,
          written |-> FALSE, raised |-> FALSE]
    ELSE [errors |-> <<>>, written |-> TRUE, raised |-> FALSE]

ImageScenarios ==
    {"no_client", "no_dockerfile", "bad_args", "build_error", "create_error", "ok"}

\* Lines 38-82: the steps before the file loop.
BuildDockerEnter ==
    /\ iPc = "called"
    /\ iErrors' = CASE iScen = "no_client" -> <<BuildError(<<"Docker", 0>>, "no client initialized")>>
                    [] iScen = "no_dockerfile" -> <<BuildError(<<"Dockerfile", 0>>, "is not a file")>>
                    [] iScen = "bad_args" -> <<BuildError(<<"Dockerfile", 0>>, "invalid build args")>>
                    [] iScen = "build_error" -> <<BuildError(<<"Dockerfile", 0>>, "failed to build")>>
                    [] iScen = "create_error" -> <<BuildError(<<"Dockerfile", 0>>, "failed to create")>>
                    [] OTHER -> <<>>
    /\ iPc' = IF iScen \in {"bad_args", "ok"} THEN "files" ELSE "returned"
    /\ iResult' = IF iScen \in {"bad_args", "ok"} THEN iResult ELSE iErrors'
    /\ iContainer' = IF iScen \in {"bad_args", "ok"} THEN "created" ELSE iContainer
    /\ UNCHANGED <<iScen, iFiles, iI, iSeen, iWritten, iRemoved>>

\* Lines 85-133: the next file-map entry.
BuildDockerFile ==
    /\ iPc = "files"
    /\ iI <= Len(iFiles)
    /\ LET step == file_map_step(iI, iFiles[iI])
       IN  /\ iErrors' = iErrors \o step.errors
           /\ iWritten' = IF step.written THEN iWritten \cup {iI} ELSE iWritten
           /\ iPc' = IF step.raised THEN "raising" ELSE iPc
    /\ iSeen' = iSeen \cup {iI}
    /\ iI' = iI + 1
    /\ UNCHANGED <<iScen, iFiles, iRemoved, iContainer, iResult>>

\* container.remove(force=True): the runtime removes the container or
\* answers with an error.
RemoveOutcomes == {"ok", "api_error"}

\* A build that removes its container when the loop ends but has no finally
\* clause: an exception of the loop leaves the call at once.
BuildDockerFinally_without_finally ==
    /\ \/ iPc = "files" /\ iI > Len(iFiles)
       \/ iPc = "raising"
    /\ IF iPc = "raising"
       THEN UNCHANGED <<iRemoved, iContainer>>
       ELSE /\ iRemoved' = TRUE
            /\ \E outcome \in RemoveOutcomes :
                  iContainer' = IF outcome = "ok" THEN "removed" ELSE "left"
    /\ iPc' = IF iPc = "raising" THEN "raised" ELSE "returned"
    /\ iResult' = IF iPc = "raising" THEN iResult ELSE iErrors
    /\ UNCHANGED <<iScen, iFiles, iI, iErrors, iSeen, iWritten>>

\* Lines 134-140: the removal of the container is attempted (an exception of
\* remove is dropped); the call returns or re-raises.
BuildDockerFinally ==
    /\ \/ iPc = "files" /\ iI > Len(iFiles)
       \/ iPc = "raising"
    /\ iRemoved' = TRUE
    /\ \E outcome \in RemoveOutcomes :
          iContainer' = IF outcome = "ok" THEN "removed" ELSE "left"
    /\ iPc' = IF iPc = "raising" THEN "raised" ELSE "returned"
    /\ iResult' = IF iPc = "raising" THEN iResult ELSE iErrors
    /\ UNCHANGED <<iScen, iFiles, iI, iErrors, iSeen, iWritten>>

FileLists == UNION {[1 .. n -> EntryKinds] : n \in 0 .. MaxFiles}

ImageStart ==
    /\ iPc = "called"
    /\ iI = 1
    /\ iErrors = <<>>
    /\ iSeen = {}
    /\ iWritten = {}
    /\ iRemoved = FALSE
    /\ iContainer = "none"
    /\ iResult = <<>>

ImageInit ==
    /\ iScen \in ImageScenarios
    /\ iFiles \in FileLists
    /\ ImageStart

ImageIdle ==
    /\ iScen = "ok"
    /\ iFiles = <<>>
    /\ ImageStart

(***************************************************************************)
(* The stage callbacks that the workers of one invocation run concurrently *)
(* (cmd/docker/start.py, stop.py, list.py, deploy.py, cmd/k8s/build.py,    *)
(* cmd/test.py): the names they compute and the objects they mutate.  An   *)
(* object is identified by its kind and by the worker that created it, or  *)
(* by "context" and its field when the cli created it.                     *)
(***************************************************************************)
\* Track.tag and Track.name of a challenge.json.
TrackLabel(tag, name) == [tag |-> tag, name |-> name]

\* track.tag or track.name
track_label(t) == IF t.tag # None /\ t.tag[1] # <<>> THEN t.tag[1] ELSE t.name

\* cmd/docker/start.py line 59: name=f"{track.tag or track.name}-{i}"
start_name(t, i) == track_label(t) \o <<"-">> \o str(i)

\* The context name of stop computed from the track name only.
stop_name_without_tag(t, i) == t.name \o <<"-">> \o str(i)

\* cmd/docker/stop.py line 43: name=f"{track.tag or track.name}-{i}"
stop_name(t, i) == track_label(t) \o <<"-">> \o str(i)

\* cmd/docker/list.py line 35, cmd/k8s/build.py line 111:
\* to_docker_tag(f"{track.tag or track.name}-{i}")
deploy_name(t, i) == to_docker_tag(track_label(t) \o <<"-">> \o str(i))

\* cmd/test.py line 35: to_docker_tag(f"ctf-builder_test_{track.tag or track.name}")
test_network_name(t) == to_docker_tag(<<"ctf-builder_test_">> \o track_label(t))

\* The context the cli builds: each field refers to an object.
StageContext ==
    [challenge_path |-> <<"context", "challenge_path">>,
     skip_inactive |-> <<"context", "skip_inactive">>,
     docker_client |-> <<"context", "docker_client">>,
     output |-> <<"context", "output">>,
     public_ports |-> <<"context", "public_ports">>]

\* copy_context: a new context whose fields refer to the objects of the old
\* one, the overridden fields excepted.
copy_context(context, overrides) ==
    [f \in DOMAIN context |-> IF f \in DOMAIN overrides THEN overrides[f] ELSE context[f]]

\* cli_challenge_wrapper lines 209-211: the context of the worker of dir.
challenge_context(dir) ==
    copy_context(StageContext, [challenge_path |-> <<"challenge_path", dir>>,
                                skip_inactive |-> <<"skip_inactive", dir>>])

StageNames == {"start", "stop", "list", "deploy", "k8s_build", "test"}

\* The stage of the running invocation.
Stage == IF sRound = 0 THEN "none" ELSE sPlan[sRound]

\* The runtime answers of a start or stop call kept here: success, the
\* answer that depends on the name (in use, not found), and one failure.
StageOutcomes == {"ok", "conflict", "not_found", "api_error"}

\* Every worker of the invocation has ended (or none was started yet).
StageQuiet == \A dir \in ChallengeNames : sPc[dir] \in {"idle", "dead", "raised"}

OnlySkips(errors) == \A n \in 1 .. Len(errors) : errors[n] = SkipError

NoInvocation == [stage |-> "none", ok |-> FALSE, fault |-> FALSE, created |-> {}]

\* The cli of k8s build before the wrapper has returned.
NoRoot == [done |-> FALSE, runs |-> 0, service |-> <<>>, proxy |-> <<>>]

\* The cli of the next stage of the plan: a new context, one worker per
\* challenge directory.
StageInvoke ==
    /\ StageQuiet
    /\ sRound < Len(sPlan)
    /\ sRound' = sRound + 1
    /\ sPrev' = IF sRound = 0 THEN NoInvocation
                ELSE [stage |-> Stage,
                      ok |-> \A dir \in ChallengeNames : OnlySkips(sErrors[dir]),
                      fault |-> sFault,
                      created |-> {c.name : c \in {x \in containers : x.by = "start"}}]
    /\ sPc' = [dir \in ChallengeNames |->
                  IF sPlan[sRound + 1] = "test" THEN "network" ELSE "running"]
    /\ sI' = [dir \in ChallengeNames |-> 0]
    /\ sErrors' = [dir \in ChallengeNames |-> <<>>]
    /\ sAccess' = {}
    /\ sWrites' = {}
    /\ sOutput' = <<>>
    /\ sPublicPorts' = <<>>
    /\ sManifests' = {}
    /\ sStarted' = [dir \in ChallengeNames |-> {}]
    /\ sNet' = [dir \in ChallengeNames |-> FALSE]
    /\ sRoot' = NoRoot
    /\ sFault' = FALSE
    /\ UNCHANGED <<sLabels, sDeploys, sPlan>>
    /\ UNCHANGED runtimeVars

\* What one iteration of a callback's loop leaves in the worker's state.
StageAdvance(dir, errors, names, objects, fault) ==
    /\ sI' = [sI EXCEPT ![dir] = @ + 1]
    /\ sErrors' = [sErrors EXCEPT ![dir] = @ \o errors]
    /\ sAccess' = sAccess \cup {[dir |-> dir, name |-> n] : n \in names}
    /\ sWrites' = sWrites \cup {[dir |-> dir, object |-> o] : o \in objects}
    /\ sFault' = (sFault \/ fault)
    /\ UNCHANGED <<sLabels, sDeploys, sPlan, sRound, sPc, sManifests, sNet, sRoot, sPrev>>

StageInLoop(dir, stage) ==
    /\ Stage = stage
    /\ sPc[dir] = "running"
    /\ sI[dir] < sDeploys[dir]

\* start, lines 56-66: docker_start of deploy i with the default skip_reuse.
StartStep(dir) ==
    /\ StageInLoop(dir, "start")
    /\ LET name == start_name(sLabels[dir], sI[dir])
           cname == get_container_name(DEPLOY_NETWORK, name)
       IN  \E scen \in StartScenarios(TRUE, cname \in ContainerNames) \cap StageOutcomes :
             /\ containers' =
                   IF docker_start_creates(scen)
                   THEN containers \cup
                        {[name |-> cname, network |-> DEPLOY_NETWORK, by |-> "start",
                          running |-> TRUE, bindings |-> <<>>]}
                   ELSE containers
             /\ StageAdvance(dir, docker_start_errors(name, TRUE, scen),
                             {<<"container", cname>>},
                             {<<"errors", dir>>, <<"port_generator", dir>>},
                             scen = "api_error")
    /\ UNCHANGED <<track, docker_client, networks, sOutput, sPublicPorts, sStarted>>

\* stop, lines 40-48: docker_stop of deploy i with the default skip_not_found.
StopStep(dir) ==
    /\ StageInLoop(dir, "stop")
    /\ LET name == stop_name(sLabels[dir], sI[dir])
           cname == get_container_name(DEPLOY_NETWORK, name)
       IN  \E scen \in StopScenarios(TRUE, cname \in ContainerNames) \cap StageOutcomes :
             /\ containers' =
                   IF docker_stop_removes(scen)
                   THEN {x \in containers : x.name # cname}
                   ELSE containers
             /\ StageAdvance(dir, docker_stop_errors(name, TRUE, scen),
                             {<<"container", cname>>},
                             {<<"errors", dir>>},
                             scen = "api_error")
    /\ UNCHANGED <<track, docker_client, networks, sOutput, sPublicPorts, sStarted>>

\* list_, lines 34-35: the name of deploy i is appended to context.output.
ListStep(dir) ==
    /\ StageInLoop(dir, "list")
    /\ sOutput' = Append(sOutput, deploy_name(sLabels[dir], sI[dir]))
    /\ StageAdvance(dir, <<>>, {}, {challenge_context(dir).output}, FALSE)
    /\ UNCHANGED <<sPublicPorts, sStarted>>
    /\ UNCHANGED runtimeVars

\* deploy, lines 33-43: docker_deploy of deploy i, which builds the image or
\* returns the errors of the build.
DeployStep(dir) ==
    /\ StageInLoop(dir, "deploy")
    /\ \E scen \in {"ok", "build_error"} :
          StageAdvance(dir, docker_start_errors(start_name(sLabels[dir], sI[dir]), TRUE, scen),
                       {}, {<<"errors", dir>>}, scen # "ok")
    /\ UNCHANGED <<sOutput, sPublicPorts, sStarted>>
    /\ UNCHANGED runtimeVars

\* The deploys of the tracks k8s build is run on: two public ports and a
\* port that is not public between them.
K8sDeployer == DeployDocker(FALSE, <<Port(80, TRUE), Port(22, FALSE), Port(443, TRUE)>>)

\* get_challenge_index: the position of the directory in the sorted list of
\* the challenge directories.
get_challenge_index(dir) == IF dir = "a" THEN 0 ELSE 1

\* str() of an Optional[int]: the decimal digits, or the text "None".
RECURSIVE str_port(_)
str_port(v) ==
    IF v = None THEN <<"N", "o", "n", "e">>
    ELSE IF v[1] < 10 THEN <<Digits[v[1] + 1]>>
    ELSE str_port(Some(v[1] \div 10)) \o <<Digits[(v[1] % 10) + 1]>>

\* int() of a text: the number, or None where int raises ValueError.
RECURSIVE int(_)
int(text) ==
    IF text = <<>> \/ (\E k \in 1 .. Len(text) : text[k] \notin Range(Digits))
    THEN None
    ELSE LET last == CHOOSE d \in 0 .. 9 : Digits[d + 1] = text[Len(text)]
         IN  IF Len(text) = 1 THEN Some(last)
             ELSE Some(int(SubSeq(text, 1, Len(text) - 1))[1] * 10 + last)

\* k8s_build, lines 362-372: the container ports; a public port is named
\* after the value next(context.port_generator) gives, the others after
\* their own value.
container_ports(deployer, values) ==
    [k \in 1 .. Len(deployer.ports) |->
        [name |-> <<"p", "-">> \o
                  (IF deployer.ports[k].public
                   THEN str_port(values[Len(PublicPorts([deployer EXCEPT !.ports = SubSeq(@, 1, k)]))])
                   ELSE str_port(Some(deployer.ports[k].value))),
         containerPort |-> deployer.ports[k].value]]

\* build, lines 132-141: the loop over zip(deployer.get_ports(),
\* container.ports): the PublicPort entries appended, and whether
\* int(port.name[2:]) raised ValueError.
RECURSIVE public_ports_loop(_, _, _, _)
public_ports_loop(host, dir, port_defs, ports) ==
    IF port_defs = <<>> \/ ports = <<>>
    THEN [entries |-> <<>>, raised |-> FALSE]
    ELSE IF ~port_defs[1].public
    THEN public_ports_loop(host, dir, Tail(port_defs), Tail(ports))
    ELSE LET public_port == int(SubSeq(ports[1].name, 3, Len(ports[1].name)))
             rest == public_ports_loop(host, dir, Tail(port_defs), Tail(ports))
         IN  IF public_port = None
             THEN [entries |-> <<>>, raised |-> TRUE]
             ELSE [entries |-> <<[host |-> host, public_port |-> public_port[1],
                                  local_port |-> ports[1].containerPort, by |-> dir]>>
                               \o rest.entries,
                   raised |-> rest.raised]

\* build, lines 110-144: one iteration of the loop over track.deploy.  The
\* manifest of deploy i is synthesised, its public ports are appended to
\* context.public_ports and the manifest file is written; an exception ends
\* the worker, whose error list then stays as it was before the callback.
K8sBuildStep(dir) ==
    /\ StageInLoop(dir, "k8s_build")
    /\ \E scen \in {"ok", "bad_env"} :
          LET name == deploy_name(sLabels[dir], sI[dir])
              c == get_challenge_index(dir)
              n == IF scen = "ok" THEN Len(PublicPorts(K8sDeployer)) ELSE 0
              taken == generator_take(GeneratorState(c), GeneratorBase(c), n)
              loop == IF scen = "ok"
                      THEN public_ports_loop(name, dir, get_ports(K8sDeployer),
                                             container_ports(K8sDeployer, taken.values))
                      ELSE [entries |-> <<>>, raised |-> FALSE]
          IN  /\ GeneratorAdvance(c, n)
              /\ sPublicPorts' = sPublicPorts \o loop.entries
              /\ IF loop.raised
                 THEN /\ sPc' = [sPc EXCEPT ![dir] = "raised"]
                      /\ sErrors' = [sErrors EXCEPT ![dir] = <<>>]
                      /\ UNCHANGED <<sI, sManifests>>
                 ELSE /\ sI' = [sI EXCEPT ![dir] = @ + 1]
                      /\ sErrors' = [sErrors EXCEPT ![dir] = @ \o docker_start_errors(name, TRUE, scen)]
                      /\ sManifests' = IF scen = "ok"
                                       THEN sManifests \cup {<<dir, sI[dir]>>}
                                       ELSE sManifests
                      /\ UNCHANGED sPc
              /\ sWrites' = sWrites \cup
                    {[dir |-> dir, object |-> o] :
                        o \in IF loop.entries # <<>>
                              THEN {<<"errors", dir>>, <<"port_generator", dir>>,
                                    challenge_context(dir).public_ports}
                              ELSE IF scen = "ok"
                              THEN {<<"errors", dir>>, <<"port_generator", dir>>}
                              ELSE {<<"errors", dir>>}}
              /\ sFault' = (sFault \/ scen # "ok")
    /\ UNCHANGED <<sLabels, sDeploys, sPlan, sRound, sAccess, sOutput, sStarted, sNet, sRoot, sPrev>>
    /\ UNCHANGED runtimeVars

\* build_root, lines 209-240: the ports of the load-balancer service and the
\* server blocks of the proxy configuration, one per element of public_ports.
build_root(public_ports) ==
    [service |-> [k \in 1 .. Len(public_ports) |->
                     [name |-> <<"p", "-">> \o str_port(Some(public_ports[k].public_port)),
                      port |-> public_ports[k].public_port,
                      targetPort |-> public_ports[k].public_port]],
     proxy |-> [k \in 1 .. Len(public_ports) |->
                   [listen |-> public_ports[k].public_port,
                    proxy_pass |-> <<public_ports[k].host, public_ports[k].local_port>>,
                    by |-> public_ports[k].by]]]

\* cli, lines 370-379: when the wrapper has returned, build_root is called
\* with context.public_ports unless the wrapper returned False.
K8sBuildRoot ==
    /\ Stage = "k8s_build"
    /\ StageQuiet
    /\ ~sRoot.done
    /\ sRoot' = IF \A dir \in ChallengeNames : get_exit_status(sErrors[dir])
                THEN [done |-> TRUE, runs |-> sRoot.runs + 1,
                      service |-> build_root(sPublicPorts).service,
                      proxy |-> build_root(sPublicPorts).proxy]
                ELSE [sRoot EXCEPT !.done = TRUE]
    /\ UNCHANGED <<sLabels, sDeploys, sPlan, sRound, sPc, sI, sErrors, sAccess, sWrites,
                   sOutput, sPublicPorts, sManifests, sStarted, sNet, sFault, sPrev>>
    /\ UNCHANGED runtimeVars

\* The loop of a callback other than test is over: it returns its errors.
StageReturn(dir) ==
    /\ Stage \in StageNames \ {"test"}
    /\ sPc[dir] = "running"
    /\ sI[dir] = sDeploys[dir]
    /\ sPc' = [sPc EXCEPT ![dir] = "dead"]
    /\ UNCHANGED <<sLabels, sDeploys, sPlan, sRound, sI, sErrors, sAccess, sWrites,
                   sOutput, sPublicPorts, sManifests, sStarted, sNet, sRoot, sFault, sPrev>>
    /\ UNCHANGED runtimeVars

\* test, lines 31-38: the network of the track is created.  A runtime that
\* does not check network names for duplicates creates a second network
\* under a name in use.
StageTestNetwork(dir) ==
    /\ Stage = "test"
    /\ sPc[dir] = "network"
    /\ LET name == test_network_name(sLabels[dir])
       IN  \E outcome \in {"ok", "api_error"} :
             /\ networks' = IF outcome = "ok" THEN networks \cup {name} ELSE networks
             /\ sNet' = [sNet EXCEPT ![dir] = (outcome = "ok")]
             /\ sPc' = [sPc EXCEPT ![dir] = IF outcome = "ok" THEN "running" ELSE "dead"]
             /\ sErrors' = [sErrors EXCEPT ![dir] =
                               IF outcome = "ok" THEN @
                               ELSE <<DeployError("Network", "failed to start")>>]
             /\ sAccess' = sAccess \cup {[dir |-> dir, name |-> <<"network", name>>]}
             /\ sWrites' = IF outcome = "ok"
                           THEN sWrites \cup {[dir |-> dir, object |-> <<"network", dir>>]}
                           ELSE sWrites
             /\ sFault' = (sFault \/ (outcome # "ok" /\ name \notin networks))
    /\ UNCHANGED <<sLabels, sDeploys, sPlan, sRound, sI, sOutput, sPublicPorts, sManifests,
                   sStarted, sRoot, sPrev>>
    /\ UNCHANGED <<track, docker_client, containers>>

\* The container names of the deploys of the track of dir in the test stage.
test_container_name(dir, i) ==
    get_container_name(test_network_name(sLabels[dir]), HostName(i + 1))

\* test, lines 47-69: deploy i is started on the network of the track and,
\* when its start returned no error, appended to running_deployers.
StageTestStart(dir) ==
    /\ StageInLoop(dir, "test")
    /\ LET cname == test_container_name(dir, sI[dir])
       IN  \E scen \in StartScenarios(TRUE, cname \in ContainerNames) \cap StageOutcomes :
             LET deployer_errors == docker_start_errors(HostName(sI[dir] + 1), FALSE, scen)
             IN  /\ containers' =
                       IF docker_start_creates(scen)
                       THEN containers \cup
                            {[name |-> cname, network |-> test_network_name(sLabels[dir]),
                              by |-> dir, running |-> TRUE, bindings |-> <<>>]}
                       ELSE containers
                 /\ sStarted' = IF deployer_errors = <<>>
                                THEN [sStarted EXCEPT ![dir] = @ \cup {sI[dir]}]
                                ELSE sStarted
                 /\ StageAdvance(dir, deployer_errors,
                                 {<<"container", cname>>},
                                 {<<"errors", dir>>, <<"container", dir>>},
                                 scen = "api_error")
    /\ UNCHANGED <<track, docker_client, networks, sOutput, sPublicPorts>>

\* test, lines 71-110: the try block is left and the finally clause begins.
StageTestLeave(dir) ==
    /\ Stage = "test"
    /\ sPc[dir] = "running"
    /\ sI[dir] = sDeploys[dir]
    /\ sPc' = [sPc EXCEPT ![dir] = "teardown"]
    /\ sI' = [sI EXCEPT ![dir] = 0]
    /\ UNCHANGED <<sLabels, sDeploys, sPlan, sRound, sErrors, sAccess, sWrites,
                   sOutput, sPublicPorts, sManifests, sStarted, sNet, sRoot, sFault, sPrev>>
    /\ UNCHANGED runtimeVars

\* A teardown that stops every deploy of the track, started by it or not.
StageTestStop_stops_all(dir) ==
    /\ Stage = "test"
    /\ sPc[dir] = "teardown"
    /\ sI[dir] < sDeploys[dir]
    /\ LET cname == test_container_name(dir, sI[dir])
       IN  \E scen \in StopScenarios(TRUE, cname \in ContainerNames) \cap StageOutcomes :
             /\ containers' = IF docker_stop_removes(scen)
                              THEN {x \in containers : x.name # cname}
                              ELSE containers
             /\ sErrors' = [sErrors EXCEPT ![dir] =
                               @ \o docker_stop_errors(HostName(sI[dir] + 1), FALSE, scen)]
    /\ sI' = [sI EXCEPT ![dir] = @ + 1]
    /\ UNCHANGED <<sLabels, sDeploys, sPlan, sRound, sPc, sAccess, sWrites,
                   sOutput, sPublicPorts, sManifests, sStarted, sNet, sRoot, sFault, sPrev>>
    /\ UNCHANGED <<track, docker_client, networks>>

\* test, lines 111-117: the loop over running_deployers, taken in the order
\* of track.deploy: deploy i is stopped when it is in running_deployers.
StageTestStop(dir) ==
    /\ Stage = "test"
    /\ sPc[dir] = "teardown"
    /\ sI[dir] < sDeploys[dir]
    /\ IF sI[dir] \in sStarted[dir]
       THEN LET cname == test_container_name(dir, sI[dir])
            IN  \E scen \in StopScenarios(TRUE, cname \in ContainerNames) \cap StageOutcomes :
                  /\ containers' = IF docker_stop_removes(scen)
                                   THEN {x \in containers : x.name # cname}
                                   ELSE containers
                  /\ sErrors' = [sErrors EXCEPT ![dir] =
                                    @ \o docker_stop_errors(HostName(sI[dir] + 1), FALSE, scen)]
       ELSE UNCHANGED <<containers, sErrors>>
    /\ sI' = [sI EXCEPT ![dir] = @ + 1]
    /\ UNCHANGED <<sLabels, sDeploys, sPlan, sRound, sPc, sAccess, sWrites,
                   sOutput, sPublicPorts, sManifests, sStarted, sNet, sRoot, sFault, sPrev>>
    /\ UNCHANGED <<track, docker_client, networks>>

\* test, lines 119-125: the network object of the run is removed (an
\* exception is dropped) and the errors are returned.  The name stays in use
\* while another run holds a network of the same name.
StageTestRemoveNetwork(dir) ==
    /\ Stage = "test"
    /\ sPc[dir] = "teardown"
    /\ sI[dir] = sDeploys[dir]
    /\ \E outcome \in {"ok", "api_error"} :
          /\ sNet' = [sNet EXCEPT ![dir] = (outcome # "ok")]
          /\ networks' =
                IF outcome = "ok"
                   /\ ~\E other \in ChallengeNames \ {dir} :
                          /\ sNet[other]
                          /\ test_network_name(sLabels[other]) = test_network_name(sLabels[dir])
                THEN networks \ {test_network_name(sLabels[dir])}
                ELSE networks
    /\ sPc' = [sPc EXCEPT ![dir] = "dead"]
    /\ UNCHANGED <<sLabels, sDeploys, sPlan, sRound, sI, sErrors, sAccess, sWrites,
                   sOutput, sPublicPorts, sManifests, sStarted, sRoot, sFault, sPrev>>
    /\ UNCHANGED <<track, docker_client, containers>>

\* A container that exists under the name of the first deploy of the track
\* of a before the test stage is run.
StageLeftover ==
    [name |-> test_container_name("a", 0), network |-> test_network_name(sLabels["a"]),
     by |-> "external", running |-> TRUE, bindings |-> <<>>]

\* The tracks of the two challenge directories.
LabelShapes ==
    { TrackLabel(None, <<"X", " ", "y">>),
      TrackLabel(None, <<"x", "-", "y">>),
      TrackLabel(Some(<<"Z">>), <<"X", " ", "y">>),
      TrackLabel(Some(<<>>), <<"z">>) }

\* The command sequences the user runs.
StagePlans ==
    { <<"start", "stop">>, <<"start", "start">>, <<"list">>, <<"deploy">>,
      <<"k8s_build">>, <<"test">> }

StageStart ==
    /\ sRound = 0
    /\ sPc = [dir \in ChallengeNames |-> "idle"]
    /\ sI = [dir \in ChallengeNames |-> 0]
    /\ sErrors = [dir \in ChallengeNames |-> <<>>]
    /\ sAccess = {}
    /\ sWrites = {}
    /\ sOutput = <<>>
    /\ sPublicPorts = <<>>
    /\ sManifests = {}
    /\ sStarted = [dir \in ChallengeNames |-> {}]
    /\ sNet = [dir \in ChallengeNames |-> FALSE]
    /\ sRoot = NoRoot
    /\ sFault = FALSE
    /\ sPrev = NoInvocation

StageInit ==
    /\ sLabels \in [ChallengeNames -> LabelShapes]
    /\ sDeploys \in [ChallengeNames -> 1 .. MaxDeploys]
    /\ sLabels["a"].name = <<"X", " ", "y">>
    /\ sPlan \in StagePlans
    /\ sPlan # <<"test">> => sDeploys["b"] = 1
    /\ StageStart
    /\ IF sPlan = <<"k8s_build">> THEN PortsConfig /\ cfgPort \in {7, 65533} ELSE PortsIdle
    /\ track = [c \in ChallengeIndices |-> Track(<<>>, <<>>, <<>>)]
    /\ docker_client = TRUE
    /\ containers \in IF sPlan = <<"test">> THEN {{}, {StageLeftover}} ELSE {{}}
    /\ networks = {DEPLOY_NETWORK}

StageIdle ==
    /\ sLabels = [dir \in ChallengeNames |-> TrackLabel(None, <<>>)]
    /\ sDeploys = [dir \in ChallengeNames |-> 0]
    /\ sPlan = <<>>
    /\ StageStart

(***************************************************************************)
(* The cli of docker start and of docker stop (cmd/docker/start.py 102-148,*)
(* cmd/docker/stop.py 67-97): the loop over the requested networks.        *)
(***************************************************************************)
MaxNetworks == 2

\* The network names a command line can request; none given stands for
\* [DEPLOY_NETWORK].
NetworkNames == {DEPLOY_NETWORK, <<"lan">>}

\* get_network (cmd/common.py 72-82): the network of the name, or None when
\* networks.get raised NotFound or another APIError.
get_network(name) ==
    IF name \in networks THEN {Some(name), None} ELSE {None}

\* create_network (cmd/common.py 85-91): the created network, or None when
\* networks.create raised an APIError.
create_network(name) == {Some(name), None}

\* get_create_network (cmd/common.py 94-101).
get_create_network(name) ==
    {network \in get_network(name) : network # None}
        \cup (IF None \in get_network(name) THEN create_network(name) ELSE {})

\* start.py 103-112 and stop.py 68-69: the checks before the loop.
CliEnter ==
    /\ cPc = "entry"
    /\ IF cCommand = "start" /\ Len(arg_networks) > arg_hosts
       THEN /\ cPrinted' = Append(cPrinted,
                                  [prefix |-> <<>>,
                                   errors |-> <<DeployError("Networks",
                                                            "do not have enough hosts")>>])
            /\ cPc' = "returned"
            /\ cResult' = FALSE
            /\ UNCHANGED <<is_ok, cI>>
       ELSE /\ is_ok' = TRUE
            /\ cI' = 1
            /\ cPc' = "loop"
            /\ UNCHANGED <<cPrinted, cResult>>
    /\ UNCHANGED <<cCommand, arg_networks, arg_hosts, cWrapped>>
    /\ UNCHANGED runtimeVars

\* start.py 119-146 and stop.py 70-95: one iteration of the loop.  The
\* status cli_challenge_wrapper returns is any of the two.
CliNetwork ==
    /\ cPc = "loop"
    /\ cI <= Len(arg_networks)
    /\ LET arg_network == arg_networks[cI]
       IN  \E network \in IF cCommand = "start" THEN get_create_network(arg_network)
                          ELSE get_network(arg_network) :
             IF network = None
             THEN /\ cPrinted' = Append(cPrinted,
                                        [prefix |-> <<arg_network>>,
                                         errors |-> <<DeployError(arg_network,
                                                         IF cCommand = "start"
                                                         THEN "not started"
                                                         ELSE "not found")>>])
                  /\ UNCHANGED <<is_ok, cWrapped, networks>>
             ELSE /\ networks' = networks \cup {network[1]}
                  /\ \E status \in BOOLEAN :
                        /\ cWrapped' = Append(cWrapped, [network |-> network[1],
                                                         status |-> status])
                        /\ is_ok' = IF ~status THEN FALSE ELSE is_ok
                  /\ UNCHANGED cPrinted
    /\ cI' = cI + 1
    /\ UNCHANGED <<cCommand, arg_networks, arg_hosts, cPc, cResult>>
    /\ UNCHANGED <<track, docker_client, containers>>

\* start.py 148 and stop.py 97: the loop is over; is_ok is returned.
CliReturn ==
    /\ cPc = "loop"
    /\ cI > Len(arg_networks)
    /\ cPc' = "returned"
    /\ cResult' = is_ok
    /\ UNCHANGED <<cCommand, arg_networks, arg_hosts, cI, is_ok, cPrinted, cWrapped>>
    /\ UNCHANGED runtimeVars

CliStart ==
    /\ cPc = "entry"
    /\ cI = 0
    /\ is_ok = TRUE
    /\ cPrinted = <<>>
    /\ cWrapped = <<>>
    /\ cResult = FALSE

CliInit ==
    /\ cCommand \in {"start", "stop"}
    /\ arg_networks \in UNION {[1 .. n -> NetworkNames] : n \in 1 .. MaxNetworks}
    /\ arg_hosts \in 1 .. MaxNetworks
    /\ CliStart
    /\ track = [c \in ChallengeIndices |-> Track(<<>>, <<>>, <<>>)]
    /\ docker_client = TRUE
    /\ containers = {}
    /\ networks \in SUBSET NetworkNames

CliIdle ==
    /\ cCommand = "start"
    /\ arg_networks = <<DEPLOY_NETWORK>>
    /\ arg_hosts = 1
    /\ CliStart

(***************************************************************************)
(* Specifications.                                                         *)
(***************************************************************************)
PortsInit == PortsConfig /\ CliIdle /\ StageIdle /\ WrapperIdle /\ ImageIdle /\ RuntimeIdle /\ DeployIdle /\ TestIdle /\ BuildIdle

PortsNext ==
    \E i \in ChallengeIndices :
        port_generator(i) /\ UNCHANGED <<cliVars, stageVars, imageVars, wrapVars, runtimeVars, deployVars, testVars, buildVars>>

SpecPorts == PortsInit /\ [][PortsNext]_vars

DeployNext ==
    \/ \E d \in TrackDeploys(dChallenge) : \E f \in BOOLEAN :
          DockerStart(dChallenge, d, f) /\ UNCHANGED <<cliVars, stageVars, imageVars, wrapVars, testVars, buildVars>>
    \/ \E d \in TrackDeploys(dChallenge) : \E f \in BOOLEAN :
          DockerStop(dChallenge, d, f) /\ UNCHANGED <<cliVars, stageVars, imageVars, wrapVars, testVars, buildVars>>

SpecDeployInit == DeployInit /\ CliIdle /\ StageIdle /\ WrapperIdle /\ ImageIdle /\ TestIdle /\ BuildIdle

SpecDeploy == SpecDeployInit /\ [][DeployNext]_vars

DockerTestNext ==
    \/ TestDockerBuild /\ UNCHANGED <<cliVars, stageVars, imageVars, wrapVars, portVars, runtimeVars, deployVars, testVars>>
    \/ ThreadStart /\ UNCHANGED <<cliVars, stageVars, imageVars, wrapVars, portVars, runtimeVars, deployVars, testVars>>
    \/ ThreadsStarted /\ UNCHANGED <<cliVars, stageVars, imageVars, wrapVars, portVars, runtimeVars, deployVars, testVars>>
    \/ \E k \in 1 .. Len(bThreads) :
          VerifierRun(k) /\ UNCHANGED <<cliVars, stageVars, imageVars, wrapVars, portVars, runtimeVars, deployVars, testVars>>
    \/ ThreadsJoined /\ UNCHANGED <<cliVars, stageVars, imageVars, wrapVars, portVars, runtimeVars, deployVars, testVars>>

SpecDockerTestInit == DockerTestInit /\ CliIdle /\ StageIdle /\ WrapperIdle /\ ImageIdle /\ PortsIdle /\ DeployIdle /\ TestIdle

SpecDockerTest == SpecDockerTestInit /\ [][DockerTestNext]_vars

TestNext ==
    \/ TestCreateNetwork /\ UNCHANGED <<cliVars, stageVars, imageVars, wrapVars, portVars, deployVars, buildVars>>
    \/ TestStartDeploy /\ UNCHANGED <<cliVars, stageVars, imageVars, wrapVars, portVars, deployVars, buildVars>>
    \/ TestCheckErrors /\ UNCHANGED <<cliVars, stageVars, imageVars, wrapVars, portVars, deployVars, buildVars>>
    \/ TestPollRound /\ UNCHANGED <<cliVars, stageVars, imageVars, wrapVars, portVars, deployVars, buildVars>>
    \/ TestPollExhausted /\ UNCHANGED <<cliVars, stageVars, imageVars, wrapVars, portVars, deployVars, buildVars>>
    \/ TestCallBuild /\ UNCHANGED <<cliVars, stageVars, imageVars, wrapVars, portVars, deployVars>>
    \/ TestDockerBuild /\ UNCHANGED <<cliVars, stageVars, imageVars, wrapVars, portVars, runtimeVars, deployVars, testVars>>
    \/ ThreadStart /\ UNCHANGED <<cliVars, stageVars, imageVars, wrapVars, portVars, runtimeVars, deployVars, testVars>>
    \/ ThreadsStarted /\ UNCHANGED <<cliVars, stageVars, imageVars, wrapVars, portVars, runtimeVars, deployVars, testVars>>
    \/ \E k \in 1 .. Len(bThreads) :
          VerifierRun(k) /\ UNCHANGED <<cliVars, stageVars, imageVars, wrapVars, portVars, runtimeVars, deployVars, testVars>>
    \/ ThreadsJoined /\ UNCHANGED <<cliVars, stageVars, imageVars, wrapVars, portVars, runtimeVars, deployVars, testVars>>
    \/ TestBuildDone /\ UNCHANGED <<cliVars, stageVars, imageVars, wrapVars, portVars, deployVars>>
    \/ TestTestsDone /\ UNCHANGED <<cliVars, stageVars, imageVars, wrapVars, portVars, deployVars, buildVars>>
    \/ TestStopDeploy /\ UNCHANGED <<cliVars, stageVars, imageVars, wrapVars, portVars, deployVars, buildVars>>
    \/ TestRemoveNetwork /\ UNCHANGED <<cliVars, stageVars, imageVars, wrapVars, portVars, deployVars, buildVars>>

SpecTestInit == TestInit /\ CliIdle /\ StageIdle /\ WrapperIdle /\ ImageIdle /\ PortsIdle /\ DeployIdle /\ BuildIdle

SpecTest == SpecTestInit /\ [][TestNext]_vars

WrapperNext ==
    \/ WrapperEnter /\ UNCHANGED <<cliVars, stageVars, imageVars, portVars, runtimeVars, deployVars, testVars, buildVars>>
    \/ WrapperStartThread /\ UNCHANGED <<cliVars, stageVars, imageVars, portVars, runtimeVars, deployVars, testVars, buildVars>>
    \/ WrapperBeginPolling /\ UNCHANGED <<cliVars, stageVars, imageVars, portVars, runtimeVars, deployVars, testVars, buildVars>>
    \/ \E k \in 1 .. Len(wThreads) : WorkerRun(k) /\ UNCHANGED <<cliVars, stageVars, imageVars, portVars, runtimeVars, deployVars, testVars, buildVars>>
    \/ WrapperPoll /\ UNCHANGED <<cliVars, stageVars, imageVars, portVars, runtimeVars, deployVars, testVars, buildVars>>
    \/ WrapperReturn /\ UNCHANGED <<cliVars, stageVars, imageVars, portVars, runtimeVars, deployVars, testVars, buildVars>>

SpecWrapperInit ==
    WrapperInit /\ CliIdle /\ StageIdle /\ ImageIdle /\ PortsIdle /\ RuntimeIdle /\ DeployIdle /\ TestIdle /\ BuildIdle

SpecWrapper == SpecWrapperInit /\ [][WrapperNext]_vars

ImageOthers == <<portVars, runtimeVars, deployVars, testVars, buildVars, wrapVars, stageVars, cliVars>>

ImageNext ==
    \/ BuildDockerEnter /\ UNCHANGED ImageOthers
    \/ BuildDockerFile /\ UNCHANGED ImageOthers
    \/ BuildDockerFinally /\ UNCHANGED ImageOthers

SpecImageInit ==
    ImageInit /\ CliIdle /\ StageIdle /\ PortsIdle /\ RuntimeIdle /\ DeployIdle /\ TestIdle /\ BuildIdle
        /\ WrapperIdle

SpecImage == SpecImageInit /\ [][ImageNext]_vars

StageOthers == <<portVars, deployVars, testVars, buildVars, wrapVars, imageVars, cliVars>>

StageNext ==
    \/ StageInvoke /\ UNCHANGED StageOthers
    \/ \E dir \in ChallengeNames : StartStep(dir) /\ UNCHANGED StageOthers
    \/ \E dir \in ChallengeNames : StopStep(dir) /\ UNCHANGED StageOthers
    \/ \E dir \in ChallengeNames : ListStep(dir) /\ UNCHANGED StageOthers
    \/ \E dir \in ChallengeNames : DeployStep(dir) /\ UNCHANGED StageOthers
    \/ \E dir \in ChallengeNames :
          K8sBuildStep(dir) /\ UNCHANGED <<deployVars, testVars, buildVars, wrapVars, imageVars, cliVars>>
    \/ K8sBuildRoot /\ UNCHANGED StageOthers
    \/ \E dir \in ChallengeNames : StageReturn(dir) /\ UNCHANGED StageOthers
    \/ \E dir \in ChallengeNames : StageTestNetwork(dir) /\ UNCHANGED StageOthers
    \/ \E dir \in ChallengeNames : StageTestStart(dir) /\ UNCHANGED StageOthers
    \/ \E dir \in ChallengeNames : StageTestLeave(dir) /\ UNCHANGED StageOthers
    \/ \E dir \in ChallengeNames : StageTestStop(dir) /\ UNCHANGED StageOthers
    \/ \E dir \in ChallengeNames : StageTestRemoveNetwork(dir) /\ UNCHANGED StageOthers

SpecStagesInit ==
    StageInit /\ CliIdle /\ DeployIdle /\ TestIdle /\ BuildIdle /\ WrapperIdle /\ ImageIdle

SpecStages == SpecStagesInit /\ [][StageNext]_vars

CliOthers == <<portVars, deployVars, testVars, buildVars, wrapVars, imageVars, stageVars>>

CliNext ==
    \/ CliEnter /\ UNCHANGED CliOthers
    \/ CliNetwork /\ UNCHANGED CliOthers
    \/ CliReturn /\ UNCHANGED CliOthers

SpecCliInit ==
    CliInit /\ StageIdle /\ PortsIdle /\ DeployIdle /\ TestIdle /\ BuildIdle /\ WrapperIdle
        /\ ImageIdle

SpecCli == SpecCliInit /\ [][CliNext]_vars

\* The non-None ports the allocator of challenge i has yielded.
YieldedPorts(i) == {genOut[i][k][1] : k \in {n \in 1 .. Len(genOut[i]) : genOut[i][n] # None}}

\* The allocator of challenge i was started on a range of valid TCP ports.
ValidRange(i) ==
    /\ GeneratorBase(i) >= 0
    /\ GeneratorBase(i) + CHALLENGE_MAX_PORTS - 1 <= MAX_TCP_PORT

\* C3: the allocator started at b yields b, b+1, ..., b+s-1 in that order and
\* then None on every later call (s = CHALLENGE_MAX_PORTS); stated for the
\* allocators whose range [b, b+s) consists of valid TCP ports.
C3_YieldsExactlySpan ==
    \A i \in ChallengeIndices : ValidRange(i) =>
        \A k \in 1 .. Len(genOut[i]) :
            genOut[i][k] = IF k <= CHALLENGE_MAX_PORTS
                           THEN Some(GeneratorBase(i) + k - 1)
                           ELSE None

\* C4: the ports the allocators of two challenges at distinct indices can
\* yield are disjoint.
C4_RangesDisjoint ==
    \A i, j \in ChallengeIndices :
        i # j => YieldedPorts(i) \cap YieldedPorts(j) = {}

\* C2: when the runtime rejects the run because the container name is in
\* use, docker_start returns exactly one error, a Skip when skip_reuse is
\* true and a Deploy error when it is false, and creates no container.
C2_NameInUse ==
    [][(dLast'.op = "start" /\ dLast'.scen = "conflict") =>
          /\ ~dLast'.raised
          /\ Len(dLast'.errors) = 1
          /\ dLast'.errors[1].kind = (IF dLast'.flag THEN "Skip" ELSE "Deploy")
          /\ containers' = containers]_vars

C2_Witness ==
    /\ dLast.op = "start"
    /\ dLast.scen = "conflict"
    /\ ~dLast.flag
    /\ dLast.existed
    /\ dLast.name \in ContainerNames

\* C10: a docker_stop that returns with the container not removed returns a
\* non-empty error list: one Skip (skip_not_found) or one Deploy error when
\* the container is not found, and a Deploy error for any other API failure.
C10_StopReportsFailure ==
    (dLast.op = "stop" /\ ~dLast.raised /\ dLast.scen \in {"not_found", "api_error"}) =>
        /\ dLast.errors # <<>>
        /\ dLast.scen = "not_found" =>
              /\ Len(dLast.errors) = 1
              /\ dLast.errors[1].kind = (IF dLast.flag THEN "Skip" ELSE "Deploy")
        /\ dLast.scen = "api_error" =>
              \E k \in 1 .. Len(dLast.errors) : dLast.errors[k].kind = "Deploy"

(***************************************************************************)
(* Claims about the Docker test kind.                                      *)
(***************************************************************************)
Launched == {k \in 1 .. Len(bThreads) : bState[k] # "new"}

\* The ids of the challenges the test selects.
SelectedIds ==
    LET tester == TestTrack.test[bTester]
        all == 0 .. (Len(TestTrack.challenges) - 1)
    IN  IF tester.challenges = <<>> THEN all ELSE Range(tester.challenges) \cap all

FlagType(flag_def) == IF flag_def.regex THEN "regex" ELSE "static"

\* The (flag definition, value) positions of challenge c.
FlagPairs(c) ==
    LET flags == TestTrack.challenges[c + 1].flags
    IN  {<<j, v>> \in (1 .. Len(flags)) \X (1 .. 2) : v <= Len(flags[j].values)}

\* The launched verifiers that carry challenge c, the value and the type of
\* the flag at position <<j, v>>.
VerifiersOf(c, jv) ==
    LET flag_def == TestTrack.challenges[c + 1].flags[jv[1]]
    IN  {k \in Launched :
            /\ bThreads[k].challenge_id = c
            /\ bThreads[k].flag = flag_def.values[jv[2]]
            /\ bThreads[k].flag_type = FlagType(flag_def)}

\* The positions of challenge c that hold the same value and type as jv.
SamePairs(c, jv) ==
    LET flags == TestTrack.challenges[c + 1].flags
    IN  {p \in FlagPairs(c) :
            /\ flags[p[1]].values[p[2]] = flags[jv[1]].values[jv[2]]
            /\ FlagType(flags[p[1]]) = FlagType(flags[jv[1]])}

\* The Host index of challenge c references an existing deploy.
HostInRange(c) ==
    LET host == TestTrack.challenges[c + 1].host
    IN  host # None /\ host[1] >= 0 /\ host[1] < Len(TestTrack.deploy)

\* CHALLENGE_PORT as the claim states it: the first declared port of the
\* deploy the Host index references.
FirstPortOfHost(c) ==
    LET deployer == TestTrack.deploy[TestTrack.challenges[c + 1].host[1] + 1]
    IN  IF deployer.ports = <<>> THEN None ELSE Some(deployer.ports[1].value)

Resolvable(c) ==
    \/ TestTrack.challenges[c + 1].host = None
    \/ HostInRange(c) /\ FirstPortOfHost(c) # None

TestErrorsOf(c, f) ==
    {n \in 1 .. Len(bResult) :
        /\ bResult[n].kind = "Test"
        /\ bResult[n].context = <<"Challenge", c>>
        /\ bResult[n].expected = f}

\* The verifiers of challenge c and flag f that failed.
FailedVerifiers(c, f) ==
    {k \in 1 .. Len(bThreads) :
        /\ bThreads[k].challenge_id = c
        /\ bThreads[k].flag = f
        /\ bOutcome[k] # "exit_0"}

\* C9: the result holds exactly one Test error, with the challenge id and
\* the expected flag, for every verifier that exited non-zero or failed with
\* a runtime error (with the text after "FAIL: " as the observed value), and
\* none for a verifier that exited 0.
C9_OneTestErrorPerFailure ==
    (bPc = "returned" /\ bThreads # <<>>) =>
        /\ \A k \in 1 .. Len(bThreads) :
              Cardinality(TestErrorsOf(bThreads[k].challenge_id, bThreads[k].flag))
                  = Cardinality(FailedVerifiers(bThreads[k].challenge_id, bThreads[k].flag))
        /\ \A k \in 1 .. Len(bThreads) :
              bOutcome[k] = "fail_marker" =>
                  \E n \in TestErrorsOf(bThreads[k].challenge_id, bThreads[k].flag) :
                      bResult[n].actual = Some("FLAG{bad}")

(***************************************************************************)
(* Claims about BuildDocker.build.                                         *)
(***************************************************************************)
\* The entries whose source is missing, is a directory, or gives a tar stream
\* that does not hold exactly one regular file.
BadSource(k) == iFiles[k] \in {"not_found", "directory", "empty_directory", "symlink"}

\* The Build errors of the local list that name the source of entry k.
SourceErrors(k) ==
    {n \in 1 .. Len(iErrors) :
        iErrors[n].kind = "Build" /\ iErrors[n].context = <<"source", k>>}

\* C11: when a build that reached the file loop has ended, every entry with
\* a missing or directory source, or a tar stream without exactly one regular
\* file, has added exactly one Build error naming that source, has written
\* nothing, and every later entry was processed.
C11_BadEntryIsOneError ==
    (iPc \in {"returned", "raised"} /\ iRemoved) =>
        \A k \in 1 .. Len(iFiles) :
            (k \in iSeen /\ BadSource(k)) =>
                /\ Cardinality(SourceErrors(k)) = 1
                /\ k \notin iWritten
                /\ \A j \in (k + 1) .. Len(iFiles) : j \in iSeen

(***************************************************************************)
(* Claims about the challenge concurrency runner.                          *)
(***************************************************************************)
WrapperEnded == wPc \in {"returned", "raised"}

\* The challenges requested: the ones named, or all of the repository.
Requested == IF wArg # None THEN wArg[1] ELSE IF wRepo # None THEN wRepo[1] ELSE <<>>

\* Every error a worker recorded is a Skip.
OnlySkipsRecorded ==
    \A k \in 1 .. Len(wErrors) : \A n \in 1 .. Len(wErrors[k]) :
        wErrors[k][n].error.kind = "Skip"

\* C5: an invocation that ran workers reports success exactly when every
\* error recorded by every worker is a Skip (or none was recorded).
C5_SuccessIffOnlySkips ==
    (WrapperEnded /\ wThreads # <<>>) =>
        ((wPc = "returned" /\ wResult) <=> OnlySkipsRecorded)

\* C6: once the start loop is over every requested challenge has a worker
\* of its own that was started; a started worker can always run to its end,
\* whatever the other workers did; and every entry reported under a
\* challenge was recorded by a worker of that challenge.
C6_WorkersIndependent ==
    /\ wPc \in {"polling", "returned", "raised"} =>
          /\ Len(wThreads) = Len(Requested)
          /\ \A k \in 1 .. Len(wThreads) :
                wThreads[k] # "new" /\ wChallenges[k] = Requested[k]
    /\ \A k \in 1 .. Len(wThreads) : wThreads[k] = "alive" => ENABLED WorkerRun(k)
    /\ \A r \in 1 .. Len(wReports) : \A n \in 1 .. Len(wReports[r].errors) :
          wChallenges[wReports[r].errors[n].by] = wReports[r].challenge

\* The first worker ended with a non-Skip error, the worker of another
\* challenge then ran its callback to its end, and both were reported.
C6_Witness ==
    /\ wPc = "returned"
    /\ wDone = <<1, 2>>
    /\ wChallenges[1] # wChallenges[2]
    /\ \E n \in 1 .. Len(wErrors[1]) : wErrors[1][n].error.kind = "Deploy"
    /\ wCallback[2] = "returned"
    /\ Len(wReports) = 2
    /\ wReports[1].errors # <<>>

\* C12: an invocation of a stage without an explicit subset, in a
\* repository with a challenges folder, has resolved every challenge
\* directory of the folder and run a worker of the stage for each of them
\* when the wrapper returns.
C12_FullSetWhenNoneGiven ==
    (wPc = "returned" /\ wGiven = <<>> /\ wRepo # None) =>
        /\ wChallenges = wRepo[1]
        /\ Len(wThreads) = Len(wRepo[1])
        /\ \A k \in 1 .. Len(wThreads) : wThreads[k] = "dead"

\* The descriptor of worker k exists and is JSON but fails validation.
FailsValidation(k) == wKind[wChallenges[k]] \in {"not_a_mapping", "invalid_track"}

\* The track of worker k is valid but inactive and no subset was requested.
InactiveUnrequested(k) == wKind[wChallenges[k]] = "inactive" /\ wGiven = <<>>

\* C13: a worker that has ended invoked the stage callback exactly when its
\* descriptor exists, parses and validates and the track is not inactive
\* with no subset requested; a validation failure left only parse errors (at
\* least one) and an inactive track with no subset exactly one Skip.
C13_CallbackExactlyWhenValid ==
    \A k \in 1 .. Len(wThreads) : wThreads[k] = "dead" =>
        /\ wCallback[k] # "not_called" <=>
              /\ wKind[wChallenges[k]] \in {"inactive", "active"}
              /\ ~InactiveUnrequested(k)
        /\ FailsValidation(k) =>
              /\ wErrors[k] # <<>>
              /\ \A n \in 1 .. Len(wErrors[k]) : wErrors[k][n].error.kind = "Parse"
        /\ InactiveUnrequested(k) =>
              /\ Len(wErrors[k]) = 1
              /\ wErrors[k][1].error.kind = "Skip"

(***************************************************************************)
(* Claims about the test stage.                                            *)
(***************************************************************************)
TestEnded == tPc \in {"returned", "raised"}

\* The teardown steps attempted are a stop for every deploy whose start
\* returned no error, in start order, followed by the removal of the network.
TeardownComplete ==
    /\ Len(tLog) = Cardinality(tStartOk) + 1
    /\ \A k \in 1 .. (Len(tLog) - 1) : tLog[k][1] = "stop"
    /\ {tLog[k][2] : k \in 1 .. (Len(tLog) - 1)} = tStartOk
    /\ \A j, k \in 1 .. (Len(tLog) - 1) : j < k => tLog[j][2] < tLog[k][2]
    /\ tLog[Len(tLog)][1] = "remove_network"

\* C1: once the network has been created, test() ends (by return or by an
\* exception) only after a stop was attempted for every deploy whose start
\* returned no error and then the removal of the network was attempted,
\* whatever the earlier teardown steps did.
C1_TeardownOnEveryExit == (TestEnded /\ tNetwork) => TeardownComplete

\* A run that left through an exception after two deploys were started, in
\* which the first stop failed and the later steps were still attempted.
C1_Witness ==
    /\ tPc = "raised"
    /\ tNetwork
    /\ Cardinality(tStartOk) = 2
    /\ Len(tLog) = 3
    /\ tLog[1][3] \in {"api_error", "stop_raise"}

\* C7: a test run in which the runtime finds the name of a deploy in use
\* returns a non-Skip Deploy error (overall failure), launches no verifier
\* and still tears down the deploys it started and the network.
C7_LeftoverIsFatal ==
    (TestEnded /\ \E k \in 1 .. Len(tStarts) : tStarts[k] = "conflict") =>
        /\ tPc = "returned"
        /\ \E k \in 1 .. Len(tResult) : tResult[k].kind = "Deploy"
        /\ ~get_exit_status(tResult)
        /\ bTester = 0
        /\ TeardownComplete

\* The Host index of challenge c references no deploy of the track.
HostOutOfRange(c) ==
    LET host == TestTrack.challenges[c + 1].host
    IN  host # None /\ ~(host[1] >= 0 /\ host[1] < Len(TestTrack.deploy))

\* The "invalid host" errors the call returned for challenge c.
InvalidHostErrors(c) ==
    {n \in 1 .. Len(bResult) :
        bResult[n] = BuildError(<<"Challenge", c>>, "invalid host")}

\* The call returned after it ran the loop over the selected challenges.
LoopRan ==
    /\ bPc = "returned"
    /\ \A n \in 1 .. Len(bResult) :
          bResult[n].msg \notin {"no client initialized", "is not a file",
                                 "failed to build", "invalid id"}

\* C14: a Host index outside 0 .. len(deploy)-1, the boundary len(deploy)
\* included, is returned as an "invalid host" error of its challenge, and the
\* call never ends with an IndexError from the access to the deploy list.
C14_HostOutOfRangeIsError ==
    /\ bException # "IndexError"
    /\ LoopRan =>
          \A c \in SelectedIds : HostOutOfRange(c) => InvalidHostErrors(c) # {}

\* The public ports of container x that were bound without an allocated port.
UnallocatedBindings(x) ==
    {k \in 1 .. Len(x.bindings) : x.bindings[k][2] = None}

\* C15: docker_start never creates a container in which a public port is
\* bound to no allocated port: an exhausted allocator is an error of the call.
C15_ExhaustionIsReported ==
    \A x \in containers : x.by = "start" => UnallocatedBindings(x) = {}

\* The object was created by the worker of dir: its private error list,
\* its port allocator, its network or container handle.
CreatedBy(dir, object) ==
    /\ object[1] \in {"errors", "port_generator", "network", "container"}
    /\ object[2] = dir

\* C16: the workers of one invocation share no mutable state: every object
\* a worker mutates is one it created itself; nothing that is reachable from
\* the shared context is written, whatever the stage.
C16_NoSharedMutableState ==
    \A w \in sWrites : CreatedBy(w.dir, w.object)

\* C17: in one invocation, two workers of distinct challenge directories
\* never use a container or a network of the same name.
C17_NamesDifferAcrossChallenges ==
    \A x \in sAccess : \A y \in sAccess :
        x.dir # y.dir => x.name # y.name

\* The invocation before this one was a start that succeeded, and the runtime
\* failed no call of either invocation.
AfterGoodStart ==
    /\ StageQuiet
    /\ sRound = 2
    /\ sPrev.stage = "start"
    /\ sPrev.ok
    /\ ~sPrev.fault
    /\ ~sFault

StartedContainers == {c \in containers : c.by = "start"}

C19_TestNeverRaises == TestEnded => tPc = "returned"

\* The "did not start successfully" errors of the local list of test().
NotStartedErrors ==
    {n \in 1 .. Len(tErrors) :
        tErrors[n] = DeployError("Deployments", "did not start successfully")}

\* The deploys of the track that declare a healthcheck.
HealthcheckDeploys == {d \in 1 .. Len(TestTrack.deploy) : has_healthcheck(TestTrack.deploy[d])}

\* C20 as a state predicate: polling runs at most DEPLOY_ATTEMPTS rounds
\* and the deploys found healthy leave the waiting list; a run whose rounds
\* were used up has recorded exactly one "did not start successfully" error
\* and called no tester before it went to the teardown, and no run records
\* that error otherwise; a verifier is launched only after every deploy
\* with a healthcheck was found healthy by a polling round.
PollingBounded ==
    /\ tAttempt <= DEPLOY_ATTEMPTS
    /\ tPc = "poll" => Range(tWaiting) \cap tHealthy = {}
    /\ (tAttempt = DEPLOY_ATTEMPTS /\ tPc # "poll") =>
          /\ Cardinality(NotStartedErrors) = 1
          /\ bTester = 0
          /\ bPc = "idle"
          /\ tPc \in {"finally", "returned", "raised"}
    /\ tAttempt < DEPLOY_ATTEMPTS => NotStartedErrors = {}
    /\ Launched # {} => HealthcheckDeploys \subseteq tHealthy

\* Every step taken inside the polling loop either leaves the loop or
\* starts the next round with a waiting list that did not grow.
PollingProgress ==
    tPc = "poll" =>
        \/ tPc' # "poll"
        \/ /\ tAttempt' = tAttempt + 1
           /\ Range(tWaiting') \subseteq Range(tWaiting)

\* C20: health polling performs at most DEPLOY_ATTEMPTS rounds, each on the
\* deploys not yet found healthy; it goes on to the testers as soon as a
\* round leaves none waiting, and otherwise ends after the last round with
\* exactly one "did not start successfully" Deploy error, no verifier and
\* the teardown.  So polling terminates, and no verifier is launched while
\* a deploy with a healthcheck has not been found healthy.
C20_PollingBoundedAndFatal == [][PollingProgress]_vars /\ []PollingBounded

\* A run of a track with two healthcheck deploys in which one of them was
\* found healthy, the rounds were used up and the call returned.
C20_Witness ==
    /\ tPc = "returned"
    /\ tAttempt = DEPLOY_ATTEMPTS
    /\ tHealthy # {}
    /\ tWaiting # <<>>
    /\ NotStartedErrors # {}
    /\ TeardownComplete

(***************************************************************************)
(* Claims about the joins, the teardown and the tracking of test().         *)
(***************************************************************************)
\* The verifier threads that were started and have not ended.
RunningVerifiers == {k \in 1 .. Len(bThreads) : bState[k] = "running"}

\* A verifier runs only inside a build call that has not gone past its join
\* loop, and a build call that returned has merged the final error list of
\* every thread it started, in thread order.
JoinedBeforeMerge ==
    /\ RunningVerifiers # {} => (tPc = "in_build" /\ bPc \in {"starting", "joining"})
    /\ (bPc = "returned" /\ bThreads # <<>>) =>
          /\ \A k \in 1 .. Len(bThreads) : bState[k] \in {"done", "died"}
          /\ bResult = bErrors \o Flatten(bThreadErrors)

\* A step that goes on to the next tester, stops a deploy or removes the
\* network is taken while no verifier runs.
AdvanceAfterJoin ==
    (tI' # tI \/ tLog' # tLog \/ containers' # containers \/ networks' # networks
        \/ (tPc = "in_build" /\ tPc' # "in_build"))
    => (RunningVerifiers = {} /\ RunningVerifiers' = {})

\* C21: every verifier thread is joined before the error lists are merged:
\* build returns, and the test run goes on to the next tester or to the
\* teardown, only after every verifier it started has ended; no deploy is
\* stopped and the network is not removed while a verifier runs.
C21_VerifiersJoinedFirst == []JoinedBeforeMerge /\ [][AdvanceAfterJoin]_vars

\* A run whose verifier failed with the marker, whose error was merged into
\* the result, and whose deploys were stopped afterwards.
C21_Witness ==
    /\ tPc = "returned"
    /\ bThreads # <<>>
    /\ \E k \in 1 .. Len(bThreads) : bOutcome[k] = "fail_marker"
    /\ \E n \in 1 .. Len(tResult) : tResult[n].kind = "Test"
    /\ \E k \in 1 .. Len(tLog) : tLog[k][1] = "stop" /\ tLog[k][3] = "ok"
    /\ TeardownComplete

(***************************************************************************)
(* Claims about the resolution of Arguments sources.                       *)
(***************************************************************************)
\* The errors of the local list of build that report an unresolvable source.
UnresolvedSourceErrors ==
    {n \in 1 .. Len(bErrors) :
        bErrors[n].msg \in {"invalid build args", "invalid environment"}}

\* C22: a build call of the Docker test kind in which a source of the build
\* arguments or of the environment did not resolve reports the error and
\* uses the partially collected map for nothing: it launches no verifier.
C22_NoPartialMapDownstream ==
    UnresolvedSourceErrors # {} => Launched = {}

(***************************************************************************)
(* Claims about the extraction container of BuildDocker.build.             *)
(***************************************************************************)
ImageEnded == iPc \in {"returned", "raised"}

TeardownFailures == {k \in 1 .. Len(tLog) : tLog[k][3] # "ok"}

\* C24: a run that returned holds, in the list it returned, an error for
\* every teardown step that failed: a Deploy error naming the deploy for a
\* failed stop and an error for a failed removal of the network; so a run
\* with a failed teardown step is reported as failed.
C24_TeardownFailuresReturned ==
    tPc = "returned" =>
        /\ TeardownFailures # {} => ~get_exit_status(tResult)
        /\ \A k \in TeardownFailures :
              tLog[k][1] = "stop" =>
                  \E n \in 1 .. Len(tResult) :
                      /\ tResult[n].kind = "Deploy"
                      /\ tResult[n].context = HostName(tLog[k][2])

\* The deploys whose start call has returned an empty error list so far.
StartedWithoutError ==
    {d \in 1 .. Len(tStarts) :
        /\ ~docker_start_raises(tStarts[d])
        /\ docker_start_errors(HostName(d), FALSE, tStarts[d]) = <<>>}

\* The tracking lists at one point of the run.
TrackingExact ==
    /\ Range(tRunning) = StartedWithoutError
    /\ Len(tRunning) = Cardinality(Range(tRunning))
    /\ Range(tWaiting) \subseteq Range(tRunning)
    /\ tPc = "deploy" =>
          Range(tWaiting) = {d \in Range(tRunning) : TestTrack.deploy[d].healthcheck}
    /\ tPc = "poll" => Range(tWaiting) \cap tHealthy = {}

\* After the start loop the teardown list is fixed and the polling list
\* does not grow.
TrackingShrinks ==
    tPc # "deploy" =>
        /\ tRunning' = tRunning
        /\ Range(tWaiting') \subseteq Range(tWaiting)

\* C25: at every point of a test run the deploys tracked for teardown are
\* exactly those whose start has returned no error so far; the deploys
\* tracked for health polling are a subset of them, exactly those with a
\* healthcheck while the deploys are started, and only shrinking afterwards:
\* a deploy found healthy is not in the list polled by a later round.
C25_TrackingLists == []TrackingExact /\ [][TrackingShrinks]_vars

\* A second polling round of a track with three deploys, all started: one
\* of the two healthcheck deploys was found healthy, the other is waiting.
C25_Witness ==
    /\ tPc = "poll"
    /\ tAttempt = 1
    /\ Len(tRunning) = 3
    /\ Cardinality(tHealthy) = 1
    /\ Len(tWaiting) = 1

(***************************************************************************)
(* Claims about how the runner ends.                                       *)
(***************************************************************************)
\* The reports printed under the name of worker k.
ReportsOf(k) == {r \in 1 .. Len(wReports) : wReports[r].challenge = wChallenges[k]}

\* The entries of all_errors that worker k recorded.
AggregatedOf(k) == {n \in 1 .. Len(all_errors) : all_errors[n].by = k}

\* C26: the wrapper ends only by returning, after every worker it started
\* has terminated and the result of every worker was printed exactly once
\* and added to the aggregate exactly once; it never ends while a worker is
\* alive and never ends with an exception in place of the return.
C26_ReturnsAfterEveryReport ==
    /\ wPc # "raised"
    /\ (wPc = "returned" /\ wThreads # <<>>) =>
          \A k \in 1 .. Len(wThreads) :
              /\ wThreads[k] = "dead"
              /\ Cardinality(ReportsOf(k)) = 1
              /\ Cardinality(AggregatedOf(k)) = Len(wErrors[k])

(***************************************************************************)
(* Claims about the cluster-wide synthesis of k8s build.                   *)
(***************************************************************************)
\* The server blocks of the proxy configuration that point at the service
\* of deploy i of dir and at the internal port p.
ServerBlocks(dir, i, p) ==
    {n \in 1 .. Len(sRoot.proxy) :
        /\ sRoot.proxy[n].by = dir
        /\ sRoot.proxy[n].proxy_pass = <<deploy_name(sLabels[dir], i), p>>}

\* C27: build_root runs at most once per invocation and only after every
\* worker has ended; the load-balancer service and the proxy configuration
\* it writes hold exactly one port / one server block for each public port
\* of each deploy whose manifest was written, pointing at that deploy's
\* service name and internal port, and nothing else.
C27_RootHoldsManifestPorts ==
    /\ sRoot.runs <= 1
    /\ sRoot.runs = 1 =>
          /\ StageQuiet
          /\ Len(sRoot.service) = Len(sRoot.proxy)
          /\ Len(sRoot.proxy) = Cardinality(sManifests) * Len(PublicPorts(K8sDeployer))
          /\ \A dir \in ChallengeNames : \A i \in 0 .. (sDeploys[dir] - 1) :
                \A k \in 1 .. Len(PublicPorts(K8sDeployer)) :
                    Cardinality(ServerBlocks(dir, i, PublicPorts(K8sDeployer)[k].value))
                        = IF <<dir, i>> \in sManifests THEN 1 ELSE 0

\* ---------------------------------------------------------------------
\* Claims about what the teardown of test() removes
\* ---------------------------------------------------------------------

\* The containers a step removes.
StageRemoved == {x \in containers : x \notin containers'}

\* Container x is removed by the teardown of the run that started it: the
\* run of x.by is stopping the deploy of that name, which is in its
\* running_deployers.
RemovedByItsRun(x) ==
    /\ x.by \in ChallengeNames
    /\ sPc[x.by] = "teardown"
    /\ sI[x.by] \in sStarted[x.by]
    /\ sI'[x.by] = sI[x.by] + 1
    /\ x.name = test_container_name(x.by, sI[x.by])

\* C28: in the test stage a container is removed only by the teardown of
\* the run that started it without error: a container that existed under a
\* deploy's name before the run is never removed, and of two interleaved
\* runs with the same names neither removes a container of the other.
C28_TeardownStopsOnlyOwnStarts ==
    [][Stage = "test" => \A x \in StageRemoved : RemovedByItsRun(x)]_vars

\* Two runs of tracks of the same label and deploys were interleaved: a
\* found the name of its first deploy taken by b, started its second
\* deploy, and has ended, and the container b started is still there.
C28_Witness ==
    /\ Stage = "test"
    /\ sLabels["a"] = sLabels["b"]
    /\ sDeploys["a"] = 2 /\ sDeploys["b"] = 2
    /\ sPc["a"] = "dead" /\ sStarted["a"] = {1}
    /\ sStarted["b"] = {0}
    /\ \E x \in containers : x.by = "b" /\ x.name = test_container_name("a", 0)
    /\ ~\E x \in containers : x.by = "a"

\* The workers of the challenge of report r.
WorkersOf(r) == {k \in 1 .. Len(wThreads) : wChallenges[k] = wReports[r].challenge}

\* C29: a challenge is printed with status OK (no error at all) only when
\* each of its workers ran the stage callback to its end; and the wrapper
\* returns success only when no worker ended because its callback raised.
C29_SuccessOnlyAfterCompletedCallback ==
    /\ \A r \in 1 .. Len(wReports) :
          wReports[r].errors = <<>> =>
              \A k \in WorkersOf(r) : wThreads[k] = "dead" => wCallback[k] = "returned"
    /\ (wPc = "returned" /\ wResult) =>
          \A k \in 1 .. Len(wThreads) : wCallback[k] # "raised"

(***************************************************************************)
(* Claims about the networks of docker start and docker stop.              *)
(***************************************************************************)
\* The requested networks the cli could not obtain: it printed a Deploy
\* error under the name of the network.
NetworksNotObtained ==
    {k \in 1 .. Len(cPrinted) :
        /\ cPrinted[k].prefix # <<>>
        /\ \E n \in 1 .. Len(cPrinted[k].errors) : cPrinted[k].errors[n].kind = "Deploy"}

\* C30: docker start and docker stop return failure (false) whenever one
\* of the requested networks could not be obtained, whatever the wrapper
\* returned for the other networks.
C30_MissingNetworkFailsCommand ==
    (cPc = "returned" /\ NetworksNotObtained # {}) => ~cResult

====
